---------------------------- MODULE Spec2Model ----------------------------
(***************************************************************************)
(* Model of the SunPCi host driver's host/guest message transport:        *)
(* the shared-memory ring buffer (driver/src/ring.c) and the framed       *)
(* request/response protocol on top of it (driver/src/ipc.c).             *)
(*                                                                         *)
(* Rings are modelled at byte level: a ring is a record holding its size, *)
(* its two cursors and its buffer, a function from offsets to bytes.      *)
(* Frames are the 16 little-endian header bytes followed by the payload.  *)
(* The 32-bit fields of a frame are kept as pairs of 16-bit halves, with   *)
(* arithmetic modulo 2^32; ring cursors and lengths are plain integers,   *)
(* which the code keeps below twice the ring size.                        *)
(***************************************************************************)
EXTENDS Integers, Sequences, FiniteSets, TLC

(***************************************************************************)
(* Bounds of the model.                                                    *)
(***************************************************************************)
\* log2 of the ring size.  ring_size_valid() admits powers of two >= 64;
\* the driver's rings are 64 KiB, the model uses the smallest legal ring.
RingOrder == 6
\* Number of operations in a run of the ring-only specification.
MaxRingOps == 5

(***************************************************************************)
(* Program constants.                                                      *)
(***************************************************************************)
EINVAL == 22
ENOSPC == 28

RECURSIVE Pow2(_)
Pow2(n) == IF n = 0 THEN 1 ELSE 2 * Pow2(n - 1)

RingSize == Pow2(RingOrder)

Byte == 0..255

(***************************************************************************)
(* ring.c                                                                  *)
(***************************************************************************)

\* x & y on naturals
RECURSIVE BitAnd(_, _)
BitAnd(x, y) ==
    IF x = 0 \/ y = 0 THEN 0
    ELSE (x % 2) * (y % 2) + 2 * BitAnd(x \div 2, y \div 2)

ring_size_valid(size) == size >= 64 /\ BitAnd(size, size - 1) = 0

\* sunpci_ring_init: zeroed descriptor, cursors 0, not hardware-managed.
\* The buffer is the shared memory the ring is laid over.
sunpci_ring_init(size) ==
    [size |-> size, head |-> 0, tail |-> 0, hw_managed |-> FALSE,
     head_reg |-> "none", tail_reg |-> "none",
     buf |-> [i \in 0..(size - 1) |-> 0]]

\* faulty variant: no slot kept empty
sunpci_ring_space_noslot(ring) ==
    IF ring.head >= ring.tail
    THEN ring.size - (ring.head - ring.tail)
    ELSE ring.tail - ring.head

sunpci_ring_space(ring) ==
    IF ring.head >= ring.tail
    THEN ring.size - (ring.head - ring.tail) - 1
    ELSE ring.tail - ring.head - 1

sunpci_ring_used(ring) ==
    IF ring.head >= ring.tail
    THEN ring.head - ring.tail
    ELSE ring.size - (ring.tail - ring.head)

\* memcpy_toio(base + off, src + soff, n): src is a sequence (1-based)
memcpy_toio(buf, off, src, soff, n) ==
    [i \in DOMAIN buf |->
        IF i >= off /\ i < off + n THEN src[soff + (i - off) + 1] ELSE buf[i]]

\* memcpy_fromio(dst, base + off, n) as the sequence of the n bytes copied
memcpy_fromio(buf, off, n) == [k \in 1..n |-> buf[off + k - 1]]

\* faulty variant: the second chunk of a wrapping write is taken from the start of
\* the caller's data again
sunpci_ring_write_badwrap(ring, data) ==
    LET len   == Len(data)
        space == sunpci_ring_space(ring)
        head  == ring.head
    IN  IF len = 0 THEN [ring |-> ring, ret |-> -EINVAL]
        ELSE IF len > space THEN [ring |-> ring, ret |-> -ENOSPC]
        ELSE LET chunk1 == ring.size - head
                 chunk2 == len - chunk1
                 newbuf ==
                    IF head + len <= ring.size
                    THEN memcpy_toio(ring.buf, head, data, 0, len)
                    ELSE memcpy_toio(
                             memcpy_toio(ring.buf, head, data, 0, chunk1),
                             0, data, 0, chunk2)
             IN [ring |-> [ring EXCEPT !.buf = newbuf,
                                       !.head = (head + len) % ring.size],
                 ret  |-> len]

\* sunpci_ring_write(ring, data, len): [ring, ret]
sunpci_ring_write(ring, data) ==
    LET len   == Len(data)
        space == sunpci_ring_space(ring)
        head  == ring.head
    IN  IF len = 0 THEN [ring |-> ring, ret |-> -EINVAL]
        ELSE IF len > space THEN [ring |-> ring, ret |-> -ENOSPC]
        ELSE LET chunk1 == ring.size - head
                 chunk2 == len - chunk1
                 newbuf ==
                    IF head + len <= ring.size
                    THEN memcpy_toio(ring.buf, head, data, 0, len)
                    ELSE memcpy_toio(
                             memcpy_toio(ring.buf, head, data, 0, chunk1),
                             0, data, chunk1, chunk2)
             IN [ring |-> [ring EXCEPT !.buf = newbuf,
                                       !.head = (head + len) % ring.size],
                 ret  |-> len]

\* the wrap-aware copy shared by read and peek
RingCopyOut(ring, len) ==
    LET tail   == ring.tail
        chunk1 == ring.size - tail
        chunk2 == len - chunk1
    IN  IF tail + len <= ring.size
        THEN memcpy_fromio(ring.buf, tail, len)
        ELSE memcpy_fromio(ring.buf, tail, chunk1)
                \o memcpy_fromio(ring.buf, 0, chunk2)

\* sunpci_ring_read(ring, data, len): [ring, ret, data]
sunpci_ring_read(ring, maxlen) ==
    LET used == sunpci_ring_used(ring)
        len  == IF maxlen > used THEN used ELSE maxlen
    IN  IF maxlen = 0 THEN [ring |-> ring, ret |-> -EINVAL, data |-> << >>]
        ELSE IF len = 0 THEN [ring |-> ring, ret |-> 0, data |-> << >>]
        ELSE [ring |-> [ring EXCEPT !.tail = (ring.tail + len) % ring.size],
              ret  |-> len,
              data |-> RingCopyOut(ring, len)]

\* sunpci_ring_peek(ring, data, len): [ret, data]; the tail is not moved
sunpci_ring_peek(ring, maxlen) ==
    LET used == sunpci_ring_used(ring)
        len  == IF maxlen > used THEN used ELSE maxlen
    IN  IF maxlen = 0 THEN [ret |-> -EINVAL, data |-> << >>]
        ELSE IF len = 0 THEN [ret |-> 0, data |-> << >>]
        ELSE [ret |-> len, data |-> RingCopyOut(ring, len)]

\* faulty variant: the skip reports success and leaves the cursor in place
sunpci_ring_skip_stay(ring, len) ==
    IF len > sunpci_ring_used(ring)
    THEN [ring |-> ring, ret |-> -EINVAL]
    ELSE [ring |-> ring, ret |-> 0]

\* sunpci_ring_skip(ring, len): [ring, ret]
sunpci_ring_skip(ring, len) ==
    IF len > sunpci_ring_used(ring)
    THEN [ring |-> ring, ret |-> -EINVAL]
    ELSE [ring |-> [ring EXCEPT !.tail = (ring.tail + len) % ring.size],
          ret  |-> 0]

\* sunpci_ring_reset
sunpci_ring_reset(ring) == [ring EXCEPT !.head = 0, !.tail = 0]

(***************************************************************************)
(* ipc.h: the wire format                                                  *)
(***************************************************************************)

\* a 32-bit value as its two 16-bit halves
W32(hi, lo) == [hi |-> hi, lo |-> lo]
Mk32(n) == W32(n \div 65536, n % 65536)
\* w + n modulo 2^32, for 0 <= n < 65536
Add32(w, n) ==
    LET s == w.lo + n
    IN  W32((w.hi + (s \div 65536)) % 65536, s % 65536)
\* values below 2^30 as integers
Small32(w) == w.hi < 16384
ToInt(w) == w.hi * 65536 + w.lo

SUNPCI_MSG_MAGIC == W32(21328, 17225)          \* 0x53504349 "SPCI"
SUNPCI_MSG_HDR_SIZE == 16
SUNPCI_MAX_MSG_SIZE == 65536
SUNPCI_MAX_PAYLOAD == SUNPCI_MAX_MSG_SIZE - SUNPCI_MSG_HDR_SIZE

SUNPCI_RSP_SUCCESS == 0
SUNPCI_RSP_ERROR == 1
SUNPCI_RSP_INVALID_CMD == 2
SUNPCI_RSP_INVALID_DISP == 3

ETIMEDOUT == 110
EAGAIN == 11
EIO == 5

cpu_to_le16(x) == << x % 256, x \div 256 >>
cpu_to_le32(w) == cpu_to_le16(w.lo) \o cpu_to_le16(w.hi)
le16_to_cpu(b, off) == b[off + 1] + 256 * b[off + 2]
le32_to_cpu(b, off) == W32(le16_to_cpu(b, off + 2), le16_to_cpu(b, off))

\* struct sunpci_msg_header, as the 16 bytes written to the ring
MsgHeaderBytes(dispatcher, command, sequence, payload_len) ==
    cpu_to_le32(SUNPCI_MSG_MAGIC) \o cpu_to_le16(dispatcher)
        \o cpu_to_le16(command) \o cpu_to_le32(sequence)
        \o cpu_to_le32(payload_len)

\* struct sunpci_rsp_header, as the 16 bytes written to the ring
RspHeaderBytes(status, sequence, payload_len) ==
    cpu_to_le32(SUNPCI_MSG_MAGIC) \o cpu_to_le16(status)
        \o cpu_to_le16(0) \o cpu_to_le32(sequence)
        \o cpu_to_le32(payload_len)

\* the fields of a header held in a local struct (16 bytes)
HdrMagic(h) == le32_to_cpu(h, 0)
HdrStatus(h) == le16_to_cpu(h, 4)       \* sunpci_rsp_header.status
HdrDispatcher(h) == le16_to_cpu(h, 4)   \* sunpci_msg_header.dispatcher
HdrCommand(h) == le16_to_cpu(h, 6)      \* sunpci_msg_header.command
HdrSequence(h) == le32_to_cpu(h, 8)
HdrPayloadLen(h) == le32_to_cpu(h, 12)

\* (size_t)used >= sizeof(hdr) + payload_len, the sum taken in 64 bits
UsedCovers(used, payload_len) ==
    Small32(payload_len) /\ used >= SUNPCI_MSG_HDR_SIZE + ToInt(payload_len)

\* sunpci_ring_skip(ring, len) with len a 32-bit value that may be huge
sunpci_ring_skip32(ring, len) ==
    IF Small32(len) THEN sunpci_ring_skip(ring, ToInt(len))
    ELSE [ring |-> ring, ret |-> -EINVAL]

\* sunpci_ring_sync_head: the local producer cursor is overwritten by the
\* register for a hardware-managed ring
sunpci_ring_sync_head(ring, regs, mmio) ==
    IF ring.hw_managed /\ mmio
    THEN [ring EXCEPT !.head = regs[ring.head_reg]]
    ELSE ring

\* sunpci_ring_sync_tail: the local consumer cursor is written to the
\* register for a hardware-managed ring
sunpci_ring_sync_tail(ring, regs, mmio) ==
    IF ring.hw_managed /\ mmio
    THEN [regs EXCEPT ![ring.tail_reg] = ring.tail]
    ELSE regs

(***************************************************************************)
(* State.                                                                  *)
(***************************************************************************)
VARIABLES
    ring,       \* a stand-alone ring, as sunpci_ring_init() leaves it
    shadow,     \* the bytes written to `ring' and not yet consumed, in order
    wr_total,   \* bytes accepted by writes on `ring'
    rd_total,   \* bytes consumed by reads and skips on `ring'
    nops,       \* operations performed on `ring'
    last,       \* the last operation on `ring': its arguments and results
    cmd_ring,   \* dev->cmd_ring
    rsp_ring,   \* dev->rsp_ring
    scratch,    \* the scratchpad registers holding the ring cursors, and
                \* the secondary doorbell register
    mmio_base,  \* dev->mmio_base is mapped
    doorbell,   \* writes to the primary doorbell register, by bit
    ipc_sequence, \* the static atomic counter of ipc.c
    pc,         \* each host context's position
    loc,        \* each host context's locals and call arguments
    guest,      \* what the guest has written to the response ring, and
                \* how many of its frames were there when it last rang
    calls,      \* calls started so far
    storage,    \* dev->storage: the image mounted in each slot, if any
    disk_io,    \* the kernel_read/kernel_write calls issued for sector I/O
    hres,       \* the last storage operation: its arguments and results
    session,    \* dev->state, dev->config, dev->storage.disk_path,
                \* dev->start_time, and the clock ktime_get() reads
    mutex,      \* the context holding dev->mutex, or "none"
    registry,   \* the channel registry: next_id and the channel slots
    chres       \* the last channel operation: its arguments and results

ringVars == <<ring, shadow, wr_total, rd_total, nops, last>>

ipcVars == <<cmd_ring, rsp_ring, scratch, mmio_base, doorbell, ipc_sequence,
             pc, loc, guest, calls>>

hostVars == <<storage, disk_io, hres, session, mutex, registry, chres>>

vars == <<ring, shadow, wr_total, rd_total, nops, last,
          cmd_ring, rsp_ring, scratch, mmio_base, doorbell, ipc_sequence,
          pc, loc, guest, calls, storage, disk_io, hres, session, mutex,
          registry, chres>>

(***************************************************************************)
(* The ring on its own: any sequence of write/read/peek/skip calls.       *)
(***************************************************************************)
NoOp == [op |-> "none", len |-> 0, ret |-> 0, data |-> << >>,
         expect |-> << >>, space0 |-> 0, head0 |-> 0, tail0 |-> 0]

Threads == {"t1", "t2"}

Regs == {"CMD_HEAD", "CMD_TAIL", "RSP_HEAD", "RSP_TAIL", "SEC_DOORBELL"}

\* a ring as sunpci_setup_rings() leaves it: initialised, then marked
\* hardware-managed with its two scratchpad registers
HwRing(head_reg, tail_reg) ==
    [sunpci_ring_init(RingSize) EXCEPT !.hw_managed = TRUE,
                                       !.head_reg = head_reg,
                                       !.tail_reg = tail_reg]

\* a host context's locals before a call
Loc0 ==
    [op |-> "none", fin |-> FALSE, ret |-> 0,
     \* sunpci_ipc_send_cmd
     dispatcher |-> 0, command |-> 0, seq |-> Mk32(0), cmd_len |-> 0,
     space_seen |-> -1, wrote |-> 0, rang |-> FALSE,
     \* sunpci_ipc_recv_rsp
     expected |-> Mk32(0), cap |-> 0, tmo |-> "zero",
     hdr |-> << >>, status |-> -1, actual_len |-> Mk32(0), data |-> << >>,
     pass |-> 0, early |-> FALSE,
     at_call |-> << >>, first_ready |-> FALSE, first_view |-> << >>,
     whole |-> FALSE, lost |-> << >>,
     buf |-> TRUE, frame |-> << >>, tail0 |-> 0, advance |-> 0,
     \* sunpci_ipc_process_requests
     rsp |-> << >>, fresh |-> FALSE, log |-> << >>,
     \* the session ioctls
     cfg |-> << >>]

\* the stand-alone ring, untouched
RingAlone ==
    /\ ring = sunpci_ring_init(RingSize)
    /\ shadow = << >>
    /\ wr_total = 0
    /\ rd_total = 0
    /\ nops = 0
    /\ last = NoOp

\* the device after a successful probe, no call in progress.  ipc_sequence
\* is a file-scope counter: it is 0 when the module is loaded and a device
\* probed later finds it where earlier calls left it.
DeviceInitWith(seq0) ==
    /\ cmd_ring = HwRing("CMD_HEAD", "CMD_TAIL")
    /\ rsp_ring = HwRing("RSP_HEAD", "RSP_TAIL")
    /\ scratch = [r \in Regs |-> 0]
    /\ mmio_base = TRUE
    /\ doorbell = {}
    /\ ipc_sequence = seq0
    /\ pc = [t \in Threads |-> "idle"]
    /\ loc = [t \in Threads |-> Loc0]
    /\ guest = [frames |-> << >>, done |-> FALSE, rung |-> 0]
    /\ calls = 0

DeviceInit == DeviceInitWith(Mk32(0))

Slots == {"disk0", "disk1", "cdrom", "floppy0", "floppy1"}

\* no storage device: the slot's pointer is NULL
NoDev == [file |-> "none", mounted |-> FALSE]

\* no storage operation yet
NoStorageOp == [op |-> "none", n |-> 0]

\* dev->config as sunpci_create_device leaves it: 64 MB, the network and
\* clipboard flags, no paths
DefaultFlags == 15
DefaultConfig ==
    [memory_mb |-> 64, flags |-> DefaultFlags, primary_disk |-> "",
     secondary_disk |-> "", bios_path |-> ""]

\* the session after sunpci_create_device: the structure is zeroed, then
\* dev->state = SUNPCI_STATE_STOPPED and the default configuration
Session0 ==
    [state |-> "STOPPED", config |-> DefaultConfig,
     disk_path |-> <<"", "">>, start_time |-> 0, clock |-> 0]

\* the rest of the device after probe: no image mounted
MAX_CHANNELS == 16

\* a channel slot after kzalloc or memset: not in use
NoChannel ==
    [id |-> 0, dispatcher |-> 0, flags |-> 0, active |-> FALSE,
     name |-> << >>]

\* the registry as sunpci_channel_init() leaves it
Registry0 ==
    [next_id |-> 1, channels |-> [i \in 1..MAX_CHANNELS |-> NoChannel]]

NoChannelOp == [op |-> "none", n |-> 0]

HostInit ==
    /\ storage = [sl \in Slots |-> NoDev]
    /\ disk_io = << >>
    /\ hres = NoStorageOp
    /\ session = Session0
    /\ mutex = "none"
    /\ registry = Registry0
    /\ chres = NoChannelOp

Init == RingAlone /\ DeviceInit /\ HostInit

\* the caller's data: consecutive byte values, so that any two bytes that
\* are in the ring together differ
StampData(n) == [k \in 1..n |-> (wr_total + k - 1) % 256]

\* lengths tried: short ones, a header, the whole free space (and one more),
\* nothing
XferLens(r) ==
    {0, 1, 16, 24, sunpci_ring_space(r), sunpci_ring_space(r) + 1,
     sunpci_ring_used(r)}

Prefix(s, n) == SubSeq(s, 1, IF n > Len(s) THEN Len(s) ELSE n)
Drop(s, n) == SubSeq(s, n + 1, Len(s))

RingWriteOp ==
    /\ nops < MaxRingOps
    /\ \E len \in XferLens(ring) :
         LET data == StampData(len)
             res  == sunpci_ring_write(ring, data)
         IN /\ ring' = res.ring
            /\ shadow' = IF res.ret > 0 THEN shadow \o data ELSE shadow
            /\ wr_total' = IF res.ret > 0 THEN wr_total + res.ret ELSE wr_total
            /\ last' = [NoOp EXCEPT !.op = "write", !.len = len,
                           !.ret = res.ret,
                           !.space0 = sunpci_ring_space(ring),
                           !.head0 = ring.head, !.tail0 = ring.tail]
    /\ nops' = nops + 1
    /\ UNCHANGED rd_total
    /\ UNCHANGED <<ipcVars, hostVars>>

RingReadOp ==
    /\ nops < MaxRingOps
    /\ \E len \in XferLens(ring) :
         LET res == sunpci_ring_read(ring, len)
         IN /\ ring' = res.ring
            /\ shadow' = IF res.ret > 0 THEN Drop(shadow, res.ret) ELSE shadow
            /\ rd_total' = IF res.ret > 0 THEN rd_total + res.ret ELSE rd_total
            /\ last' = [NoOp EXCEPT !.op = "read", !.len = len,
                           !.ret = res.ret, !.data = res.data,
                           !.expect = IF len = 0 THEN << >>
                                      ELSE Prefix(shadow, len),
                           !.space0 = sunpci_ring_space(ring),
                           !.head0 = ring.head, !.tail0 = ring.tail]
    /\ nops' = nops + 1
    /\ UNCHANGED wr_total
    /\ UNCHANGED <<ipcVars, hostVars>>

RingPeekOp ==
    /\ nops < MaxRingOps
    /\ \E len \in XferLens(ring) :
         LET res == sunpci_ring_peek(ring, len)
         IN last' = [NoOp EXCEPT !.op = "peek", !.len = len,
                        !.ret = res.ret, !.data = res.data,
                        !.expect = IF len = 0 THEN << >>
                                   ELSE Prefix(shadow, len),
                        !.space0 = sunpci_ring_space(ring),
                        !.head0 = ring.head, !.tail0 = ring.tail]
    /\ nops' = nops + 1
    /\ UNCHANGED <<ring, shadow, wr_total, rd_total>>
    /\ UNCHANGED <<ipcVars, hostVars>>

RingSkipOp ==
    /\ nops < MaxRingOps
    /\ \E len \in XferLens(ring) :
         LET res == sunpci_ring_skip(ring, len)
         IN /\ ring' = res.ring
            /\ shadow' = IF res.ret = 0 THEN Drop(shadow, len) ELSE shadow
            /\ rd_total' = IF res.ret = 0 THEN rd_total + len ELSE rd_total
            /\ last' = [NoOp EXCEPT !.op = "skip", !.len = len,
                           !.ret = res.ret,
                           !.space0 = sunpci_ring_space(ring),
                           !.head0 = ring.head, !.tail0 = ring.tail]
    /\ nops' = nops + 1
    /\ UNCHANGED wr_total
    /\ UNCHANGED <<ipcVars, hostVars>>

RingNext == RingWriteOp \/ RingReadOp \/ RingPeekOp \/ RingSkipOp

SpecRing == Init /\ [][RingNext]_vars

ZeroData(n) == [k \in 1..n |-> 0]

\* C1: after any sequence of ring operations, used() equals the bytes
\* written minus the bytes consumed, every read returns exactly the oldest
\* unread bytes in the order they were written, and the unread content of
\* the ring is the written-and-unread byte sequence - also when a write or a
\* read straddles the end of the buffer.
C1_RingFifo ==
    /\ sunpci_ring_used(ring) = wr_total - rd_total
    /\ wr_total - rd_total <= ring.size - 1
    /\ last.op \in {"read", "peek"} /\ last.len > 0 =>
          /\ last.data = last.expect
          /\ last.ret = Len(last.expect)
    /\ sunpci_ring_used(ring) > 0 =>
          sunpci_ring_peek(ring, sunpci_ring_used(ring)).data = shadow

\* C1 witness: a read of at least a header's worth of bytes that straddles
\* the end of the buffer has just returned.
C1_Witness ==
    /\ last.op = "read"
    /\ last.ret >= 16
    /\ last.tail0 + last.ret > ring.size
    /\ last.tail0 < ring.size

\* C2 (amended): space() + used() = N - 1 in every state; a write of
\* exactly space() bytes succeeds whenever space() >= 1, and a write of
\* space() + 1 bytes fails with -ENOSPC.
C2_SpaceUsed ==
    LET space == sunpci_ring_space(ring)
    IN  /\ space + sunpci_ring_used(ring) = ring.size - 1
        /\ space >= 1 =>
              sunpci_ring_write(ring, ZeroData(space)).ret = space
        /\ sunpci_ring_write(ring, ZeroData(space + 1)).ret = -ENOSPC
        /\ last.op = "write" /\ last.len = last.space0 /\ last.len >= 1 =>
              last.ret = last.len
        /\ last.op = "write" /\ last.len = last.space0 + 1 =>
              last.ret = -ENOSPC

\* C2 witness: a write of exactly space() bytes has just filled a ring whose
\* consumer cursor is not at offset 0.
C2_Witness ==
    /\ last.op = "write"
    /\ last.len = last.space0
    /\ last.ret = last.len
    /\ last.tail0 > 0
    /\ sunpci_ring_space(ring) = 0

\* C2 as stated: in every state a write of exactly space() bytes succeeds.
C2_Original ==
    LET space == sunpci_ring_space(ring)
    IN  /\ space + sunpci_ring_used(ring) = ring.size - 1
        /\ sunpci_ring_write(ring, ZeroData(space)).ret = space
        /\ sunpci_ring_write(ring, ZeroData(space + 1)).ret = -ENOSPC

(***************************************************************************)
(* ipc.c: sunpci_ipc_recv_rsp, one step per access to shared state        *)
(***************************************************************************)

\* callers' choices
ExpectedSeqs == {Mk32(0), Mk32(1)}
Caps == {2, 8}
Tmos == {"zero", "nonzero"}

Min(a, b) == IF a < b THEN a ELSE b

\* the bytes the guest has published in the response ring and the host has
\* not consumed
GuestView == [rsp_ring EXCEPT !.head = scratch["RSP_HEAD"]]
GuestContent == RingCopyOut(GuestView, sunpci_ring_used(GuestView))

\* a complete frame with a valid magic and an acceptable sequence is at the
\* head of ring r
FrameReady(r, expected) ==
    /\ sunpci_ring_used(r) >= SUNPCI_MSG_HDR_SIZE
    /\ LET h == sunpci_ring_peek(r, SUNPCI_MSG_HDR_SIZE).data
       IN  /\ HdrMagic(h) = SUNPCI_MSG_MAGIC
           /\ expected = Mk32(0) \/ HdrSequence(h) = expected
           /\ UsedCovers(sunpci_ring_used(r), HdrPayloadLen(h))

\* what the uninitialised local header may hold when a peek comes back short
GarbageHdrs(expected) ==
    {ZeroData(SUNPCI_MSG_HDR_SIZE), RspHeaderBytes(2989, expected, Mk32(0))}

\* the local header after a peek that copied the first Len(got) bytes
MergeHdr(got, old) ==
    [k \in 1..SUNPCI_MSG_HDR_SIZE |-> IF k <= Len(got) THEN got[k] ELSE old[k]]

CopyLen(l) == Min(l.cap, ToInt(HdrPayloadLen(l.hdr)))

\* return from sunpci_ipc_recv_rsp with `ret'; sunpci_ipc_transact then
\* maps a non-success status to -EIO
Finish(t, l, ret) ==
    LET r == IF l.op = "transact" /\ ret = 0
                   /\ l.status # SUNPCI_RSP_SUCCESS
             THEN -EIO ELSE ret
    IN  /\ loc' = [loc EXCEPT ![t] = [l EXCEPT !.fin = TRUE, !.ret = r]]
        /\ pc' = [pc EXCEPT ![t] = "idle"]

RecvCall(t) ==
    /\ pc[t] = "idle"
    /\ calls = 0
    /\ \E e \in ExpectedSeqs, cap \in Caps, tmo \in Tmos :
         loc' = [loc EXCEPT ![t] =
                    [Loc0 EXCEPT !.op = "recv", !.expected = e, !.cap = cap,
                                 !.tmo = tmo, !.at_call = GuestContent]]
    /\ pc' = [pc EXCEPT ![t] = "rr_sync"]
    /\ calls' = calls + 1
    /\ UNCHANGED <<cmd_ring, rsp_ring, scratch, mmio_base, doorbell,
                   ipc_sequence, guest>>
    /\ UNCHANGED <<ringVars, hostVars>>

\* sunpci_ring_sync_head at the top of the loop: the first pass, or a later
\* one when the loop condition (timeout && time_before(jiffies, deadline))
\* held
RecvSync(t) ==
    /\ pc[t] = "rr_sync"
    /\ loc[t].pass = 0 \/ loc[t].tmo # "zero"
    /\ LET r == sunpci_ring_sync_head(rsp_ring, scratch, mmio_base)
           l == loc[t]
           first == l.pass = 0 /\ l.op = "recv"
       IN  /\ rsp_ring' = r
           /\ loc' = [loc EXCEPT ![t] =
                [l EXCEPT !.pass = 1,
                          !.first_ready = IF first
                                          THEN FrameReady(r, l.expected)
                                          ELSE l.first_ready,
                          !.first_view =
                              IF first
                              THEN RingCopyOut(r, sunpci_ring_used(r))
                              ELSE l.first_view]]
    /\ pc' = [pc EXCEPT ![t] = "rr_used"]
    /\ UNCHANGED <<cmd_ring, scratch, mmio_base, doorbell, ipc_sequence,
                   guest, calls>>
    /\ UNCHANGED <<ringVars, hostVars>>

\* if (sunpci_ring_used(&dev->rsp_ring) >= sizeof(hdr))
RecvUsed(t) ==
    /\ pc[t] = "rr_used"
    /\ pc' = [pc EXCEPT ![t] =
                IF sunpci_ring_used(rsp_ring) >= SUNPCI_MSG_HDR_SIZE
                THEN "rr_peek" ELSE "rr_sync"]
    /\ UNCHANGED <<cmd_ring, rsp_ring, scratch, mmio_base, doorbell,
                   ipc_sequence, loc, guest, calls>>
    /\ UNCHANGED <<ringVars, hostVars>>

\* faulty variant: no sequence filter
AfterPeek_nofilter(expected, h) ==
    IF HdrMagic(h) # SUNPCI_MSG_MAGIC THEN "rr_skip1"
    ELSE "rr_full"

\* the checks without the magic check: any 16 bytes are taken for a header
AfterPeek_nomagic(expected, h) ==
    IF expected # Mk32(0) /\ HdrSequence(h) # expected THEN "rr_skipmsg"
    ELSE "rr_full"

\* the checks that follow the peek: magic, then sequence
AfterPeek(expected, h) ==
    IF HdrMagic(h) # SUNPCI_MSG_MAGIC THEN "rr_skip1"
    ELSE IF expected # Mk32(0) /\ HdrSequence(h) # expected THEN "rr_skipmsg"
    ELSE "rr_full"

\* sunpci_ring_peek(&dev->rsp_ring, &hdr, sizeof(hdr)) and the checks on hdr
RecvPeek(t) ==
    /\ pc[t] = "rr_peek"
    /\ LET l == loc[t]
           res == sunpci_ring_peek(rsp_ring, SUNPCI_MSG_HDR_SIZE)
       IN  \E g \in (IF res.ret = SUNPCI_MSG_HDR_SIZE \/ l.hdr # << >>
                     THEN {ZeroData(SUNPCI_MSG_HDR_SIZE)}
                     ELSE GarbageHdrs(l.expected)) :
              LET h == MergeHdr(res.data, IF l.hdr = << >> THEN g ELSE l.hdr)
              IN  /\ loc' = [loc EXCEPT ![t] =
                          [l EXCEPT !.hdr = h,
                                    !.whole =
                                        /\ res.ret = SUNPCI_MSG_HDR_SIZE
                                        /\ UsedCovers(sunpci_ring_used(rsp_ring),
                                                      HdrPayloadLen(h))]]
                  /\ pc' = [pc EXCEPT ![t] = AfterPeek(l.expected, h)]
    /\ UNCHANGED <<cmd_ring, rsp_ring, scratch, mmio_base, doorbell,
                   ipc_sequence, guest, calls>>
    /\ UNCHANGED <<ringVars, hostVars>>

\* the skip applied to rsp_ring by context t, and the loop's `continue'
RecvSkipTo(t, res, next) ==
    /\ rsp_ring' = res.ring
    /\ pc' = [pc EXCEPT ![t] = next]
    /\ UNCHANGED <<cmd_ring, scratch, mmio_base, doorbell, ipc_sequence,
                   loc, guest, calls>>
    /\ UNCHANGED <<ringVars, hostVars>>

\* bad magic: sunpci_ring_skip(&dev->rsp_ring, 1); continue
RecvSkipByte(t) ==
    /\ pc[t] = "rr_skip1"
    /\ RecvSkipTo(t, sunpci_ring_skip(rsp_ring, 1), "rr_sync")

\* not our response: skip sizeof(hdr) + payload_len; continue.  The call's
\* record of what it passed over: the header it saw, whether the frame was
\* complete at the head when it looked, the cursor before and after the skip
RecvSkipMsg(t) ==
    /\ pc[t] = "rr_skipmsg"
    /\ LET l == loc[t]
           res == sunpci_ring_skip32(rsp_ring,
                      Add32(HdrPayloadLen(l.hdr), SUNPCI_MSG_HDR_SIZE))
       IN  /\ rsp_ring' = res.ring
           /\ loc' = [loc EXCEPT ![t] =
                  [l EXCEPT !.lost = Append(@,
                       [hdr |-> l.hdr, whole |-> l.whole,
                        consumed |-> (res.ring.tail - rsp_ring.tail)
                                        % RingSize])]]
    /\ pc' = [pc EXCEPT ![t] = "rr_sync"]
    /\ UNCHANGED <<cmd_ring, scratch, mmio_base, doorbell, ipc_sequence,
                   guest, calls>>
    /\ UNCHANGED <<ringVars, hostVars>>

\* if (sunpci_ring_used(&dev->rsp_ring) >= sizeof(hdr) + payload_len)
RecvFull(t) ==
    /\ pc[t] = "rr_full"
    /\ pc' = [pc EXCEPT ![t] =
                IF UsedCovers(sunpci_ring_used(rsp_ring),
                              HdrPayloadLen(loc[t].hdr))
                THEN "rr_consume" ELSE "rr_sync"]
    /\ UNCHANGED <<cmd_ring, rsp_ring, scratch, mmio_base, doorbell,
                   ipc_sequence, loc, guest, calls>>
    /\ UNCHANGED <<ringVars, hostVars>>

\* consume header: sunpci_ring_skip(&dev->rsp_ring, sizeof(hdr)); then
\* if (copy_len > 0 && payload) read, if (payload_len > copy_len) skip.
\* The call's record: the frame at the head and the cursor before the skip.
RecvConsume(t) ==
    /\ pc[t] = "rr_consume"
    /\ LET l == loc[t]
           plen == ToInt(HdrPayloadLen(l.hdr))
       IN  /\ rsp_ring' = sunpci_ring_skip(rsp_ring, SUNPCI_MSG_HDR_SIZE).ring
           /\ loc' = [loc EXCEPT ![t] =
                  [l EXCEPT !.tail0 = rsp_ring.tail,
                            !.frame = sunpci_ring_peek(rsp_ring,
                                          SUNPCI_MSG_HDR_SIZE + plen).data]]
           /\ pc' = [pc EXCEPT ![t] =
                        IF CopyLen(l) > 0 /\ l.buf THEN "rr_read"
                        ELSE IF plen > CopyLen(l) THEN "rr_skiprest"
                        ELSE "rr_ret"]
    /\ UNCHANGED <<cmd_ring, scratch, mmio_base, doorbell, ipc_sequence,
                   guest, calls>>
    /\ UNCHANGED <<ringVars, hostVars>>

\* read payload: sunpci_ring_read(&dev->rsp_ring, payload, copy_len)
RecvRead(t) ==
    /\ pc[t] = "rr_read"
    /\ LET l == loc[t]
           plen == ToInt(HdrPayloadLen(l.hdr))
           res == sunpci_ring_read(rsp_ring, CopyLen(l))
       IN  /\ rsp_ring' = res.ring
           /\ loc' = [loc EXCEPT ![t] = [l EXCEPT !.data = res.data]]
           /\ pc' = [pc EXCEPT ![t] =
                        IF plen > CopyLen(l) THEN "rr_skiprest" ELSE "rr_ret"]
    /\ UNCHANGED <<cmd_ring, scratch, mmio_base, doorbell, ipc_sequence,
                   guest, calls>>
    /\ UNCHANGED <<ringVars, hostVars>>

\* skip any remaining payload we didn't read
RecvSkipRest(t) ==
    /\ pc[t] = "rr_skiprest"
    /\ LET l == loc[t]
           plen == ToInt(HdrPayloadLen(l.hdr))
       IN  RecvSkipTo(t, sunpci_ring_skip(rsp_ring, plen - CopyLen(l)),
                      "rr_ret")

\* sync head again, hand back status and length, return 0
RecvReturn(t) ==
    /\ pc[t] = "rr_ret"
    /\ rsp_ring' = sunpci_ring_sync_head(rsp_ring, scratch, mmio_base)
    /\ LET l == loc[t]
       IN  Finish(t, [l EXCEPT !.status = HdrStatus(l.hdr),
                               !.actual_len = HdrPayloadLen(l.hdr),
                               !.advance = (rsp_ring.tail - l.tail0)
                                               % RingSize], 0)
    /\ UNCHANGED <<cmd_ring, scratch, mmio_base, doorbell, ipc_sequence,
                   guest, calls>>
    /\ UNCHANGED <<ringVars, hostVars>>

\* faulty variant: the two codes exchanged
ExpiredCode_swapped(tmo) == IF tmo # "zero" THEN -EAGAIN ELSE -ETIMEDOUT

\* return timeout ? -ETIMEDOUT : -EAGAIN
ExpiredCode(tmo) == IF tmo # "zero" THEN -ETIMEDOUT ELSE -EAGAIN

RECURSIVE CmdFrames(_, _)
\* the sequence numbers of the command frames laid out in buf from off on
CmdFrames(buf, off) ==
    IF off + SUNPCI_MSG_HDR_SIZE > RingSize THEN {}
    ELSE LET h == memcpy_fromio(buf, off, SUNPCI_MSG_HDR_SIZE)
         IN  IF HdrMagic(h) # SUNPCI_MSG_MAGIC \/ ~Small32(HdrPayloadLen(h))
             THEN {}
             ELSE {HdrSequence(h)}
                    \cup CmdFrames(buf, off + SUNPCI_MSG_HDR_SIZE
                                            + ToInt(HdrPayloadLen(h)))

Answered == {guest.frames[i][2] : i \in DOMAIN guest.frames}

\* the guest writes nothing further: it has stopped, or it has answered
\* every command it can find
GuestQuiet ==
    \/ guest.done
    \/ /\ CmdFrames(cmd_ring.buf, 0) # {}
       /\ CmdFrames(cmd_ring.buf, 0) \subseteq Answered

\* a further pass over ring r (once synchronised) would consume nothing
Stuck(r, expected) ==
    \/ sunpci_ring_used(r) < SUNPCI_MSG_HDR_SIZE
    \/ LET h == sunpci_ring_peek(r, SUNPCI_MSG_HDR_SIZE).data
       IN  /\ HdrMagic(h) = SUNPCI_MSG_MAGIC
           /\ IF expected # Mk32(0) /\ HdrSequence(h) # expected
              THEN sunpci_ring_skip32(r, Add32(HdrPayloadLen(h),
                                               SUNPCI_MSG_HDR_SIZE)).ret # 0
              ELSE ~UsedCovers(sunpci_ring_used(r), HdrPayloadLen(h))

\* nothing can change what context t finds in the response ring any more:
\* the guest is quiet, no other context is in a call, and t's own passes
\* consume nothing
Settled(t) ==
    /\ GuestQuiet
    /\ \A u \in Threads \ {t} : pc[u] = "idle"
    /\ Stuck(sunpci_ring_sync_head(rsp_ring, scratch, mmio_base),
             loc[t].expected)

\* after a pass the loop condition fails: timeout is 0, or the deadline has
\* passed.  The expiry of a nonzero timeout is `early' (the timeout was not
\* sufficient) unless waiting longer could not have changed the outcome.
RecvExpire(t) ==
    /\ pc[t] = "rr_sync"
    /\ loc[t].pass = 1
    /\ LET l == loc[t]
       IN  Finish(t, [l EXCEPT !.early = l.tmo # "zero" /\ ~Settled(t)],
                  ExpiredCode(l.tmo))
    /\ UNCHANGED <<cmd_ring, rsp_ring, scratch, mmio_base, doorbell,
                   ipc_sequence, guest, calls>>
    /\ UNCHANGED <<ringVars, hostVars>>

(***************************************************************************)
(* The guest, producer of the response ring: it copies a frame into the   *)
(* shared memory at its head and then publishes the new head in the       *)
(* RSP_HEAD scratchpad; it takes the free space from RSP_TAIL.            *)
(***************************************************************************)
MaxGuestWrites == 2

GuestSeqs == {Mk32(1), Mk32(2)}

\* the payload the guest sends with the response to `sequence'
GuestPayload(sequence) ==
    IF sequence.lo % 2 = 1 THEN [k \in 1..4 |-> 16 * (sequence.lo % 8) + k]
    ELSE << >>
GuestStatus(sequence) ==
    IF sequence.lo % 2 = 0 THEN SUNPCI_RSP_ERROR ELSE SUNPCI_RSP_SUCCESS

GoodFrame(sequence) ==
    RspHeaderBytes(GuestStatus(sequence), sequence,
                   Mk32(Len(GuestPayload(sequence))))
        \o GuestPayload(sequence)

\* corrupted 16-byte headers, the first four bytes are not the magic: a
\* header with one byte of its magic cleared, and one that holds the magic
\* at offset 12
CorruptKinds == {"flipped", "embedded"}
CorruptHeader(kind) ==
    CASE kind = "flipped" ->
            [RspHeaderBytes(SUNPCI_RSP_SUCCESS, Mk32(1), Mk32(0))
                EXCEPT ![4] = 0]
      [] kind = "embedded" ->
            ZeroData(12) \o cpu_to_le32(SUNPCI_MSG_MAGIC)

\* a header with a valid magic whose payload is not (yet) there
TruncLens == {4, RingSize}
TruncatedFrame(declared) ==
    RspHeaderBytes(SUNPCI_RSP_SUCCESS, Mk32(1), Mk32(declared))

GuestSpace ==
    RingSize - 1 - ((scratch["RSP_HEAD"] - scratch["RSP_TAIL"]) % RingSize)

GuestPut(bytes, tag) ==
    /\ ~guest.done
    /\ Len(guest.frames) < MaxGuestWrites
    /\ Len(bytes) <= GuestSpace
    /\ LET h == scratch["RSP_HEAD"]
       IN  /\ rsp_ring' = [rsp_ring EXCEPT !.buf =
                  [i \in DOMAIN rsp_ring.buf |->
                      IF (i - h) % RingSize < Len(bytes)
                      THEN bytes[((i - h) % RingSize) + 1]
                      ELSE rsp_ring.buf[i]]]
           /\ scratch' = [scratch EXCEPT
                              !["RSP_HEAD"] = (h + Len(bytes)) % RingSize]
    /\ guest' = [guest EXCEPT !.frames = Append(@, tag)]
    /\ UNCHANGED <<cmd_ring, mmio_base, doorbell, ipc_sequence, pc, loc,
                   calls>>
    /\ UNCHANGED <<ringVars, hostVars>>

GuestGood ==
    \E sq \in GuestSeqs : GuestPut(GoodFrame(sq), <<"good", sq>>)

GuestCorrupt ==
    \E k \in CorruptKinds : GuestPut(CorruptHeader(k), <<"corrupt", k>>)

GuestTruncated ==
    \E d \in TruncLens : GuestPut(TruncatedFrame(d), <<"truncated", d>>)

GuestStop ==
    /\ ~guest.done
    /\ guest' = [guest EXCEPT !.done = TRUE]
    /\ UNCHANGED <<cmd_ring, rsp_ring, scratch, mmio_base, doorbell,
                   ipc_sequence, pc, loc, calls>>
    /\ UNCHANGED <<ringVars, hostVars>>

(***************************************************************************)
(* One caller of sunpci_ipc_recv_rsp against a guest that may write       *)
(* well-formed, corrupted and truncated frames.                            *)
(***************************************************************************)
RecvNext ==
    \/ GuestGood \/ GuestCorrupt \/ GuestTruncated \/ GuestStop
    \/ \E t \in {"t1"} :
         \/ RecvCall(t) \/ RecvSync(t) \/ RecvUsed(t) \/ RecvPeek(t)
         \/ RecvSkipByte(t) \/ RecvSkipMsg(t) \/ RecvFull(t)
         \/ RecvConsume(t) \/ RecvRead(t) \/ RecvSkipRest(t)
         \/ RecvReturn(t) \/ RecvExpire(t)

SpecRecv == Init /\ [][RecvNext]_vars

(***************************************************************************)
(* ipc.c: sunpci_ipc_transact and sunpci_ipc_send_cmd, one step per       *)
(* access to shared state                                                  *)
(***************************************************************************)
MaxCalls == 2

SUNPCI_DISP_STORAGE == 8
STORAGE_CMD_MOUNT == 11

\* callers' choices: the command and its payload length
CmdKinds == {[dispatcher |-> SUNPCI_DISP_STORAGE,
              command |-> STORAGE_CMD_MOUNT]}
\* payload lengths of commands sent without waiting for the response
CmdLens == {0, 40}
\* payload lengths of commands sent by sunpci_ipc_transact
TransactLens == {8}

\* every caller of sunpci_ipc_transact passes a nonzero timeout
\* (SUNPCI_CMD_TIMEOUT, SUNPCI_INIT_TIMEOUT) and a response buffer
RspLens == {2}

\* the counter at module load, and two calls before it wraps
SeqStarts == {Mk32(0), W32(65535, 65534)}

CmdPayload(sequence, n) == [k \in 1..n |-> 128 + ((sequence.lo + k) % 64)]

\* faulty variant: the counter is read without being advanced
atomic_inc_return_stale(v) == v

\* atomic_inc_return(&ipc_sequence): the new value, modulo 2^32
atomic_inc_return(v) == Add32(v, 1)

\* faulty variant: the header is left out of the length compared with the space
total_len_nohdr(payload_len) == payload_len

\* total_len = SUNPCI_MSG_HDR_SIZE + payload_len
total_len(payload_len) == SUNPCI_MSG_HDR_SIZE + payload_len

\* sunpci_ipc_send_cmd is entered, from sunpci_ipc_transact or from a
\* caller that does not wait for the response.  Contexts are
\* interchangeable: t1 makes the first call.
SendCall(t, op, lens) ==
    /\ pc[t] = "idle"
    /\ calls < MaxCalls
    /\ t = "t1" \/ calls > 0
    /\ \E k \in CmdKinds, n \in lens, cap \in RspLens :
         loc' = [loc EXCEPT ![t] =
                    [Loc0 EXCEPT !.op = op,
                                 !.dispatcher = k.dispatcher,
                                 !.command = k.command, !.cmd_len = n,
                                 !.cap = cap, !.tmo = "nonzero"]]
    /\ pc' = [pc EXCEPT ![t] = "sc_seq"]
    /\ calls' = calls + 1
    /\ UNCHANGED <<cmd_ring, rsp_ring, scratch, mmio_base, doorbell,
                   ipc_sequence, guest>>
    /\ UNCHANGED <<ringVars, hostVars>>

\* payload_len > SUNPCI_MAX_PAYLOAD: -EINVAL; else seq = sunpci_ipc_next_seq()
SendSeq(t) ==
    /\ pc[t] = "sc_seq"
    /\ IF loc[t].cmd_len > SUNPCI_MAX_PAYLOAD
       THEN /\ Finish(t, loc[t], -EINVAL)
            /\ UNCHANGED ipc_sequence
       ELSE /\ ipc_sequence' = atomic_inc_return(ipc_sequence)
            /\ loc' = [loc EXCEPT ![t] = [@ EXCEPT !.seq = ipc_sequence']]
            /\ pc' = [pc EXCEPT ![t] = "sc_space"]
    /\ UNCHANGED <<cmd_ring, rsp_ring, scratch, mmio_base, doorbell, guest,
                   calls>>
    /\ UNCHANGED <<ringVars, hostVars>>

\* if (sunpci_ring_space(&dev->cmd_ring) < total_len) return -ENOSPC
SendSpace(t) ==
    /\ pc[t] = "sc_space"
    /\ LET space == sunpci_ring_space(cmd_ring)
           l == [loc[t] EXCEPT !.space_seen = space]
       IN  IF space < total_len(l.cmd_len)
           THEN Finish(t, l, -ENOSPC)
           ELSE /\ loc' = [loc EXCEPT ![t] = l]
                /\ pc' = [pc EXCEPT ![t] = "sc_hdr"]
    /\ UNCHANGED <<cmd_ring, rsp_ring, scratch, mmio_base, doorbell,
                   ipc_sequence, guest, calls>>
    /\ UNCHANGED <<ringVars, hostVars>>

\* a write to the command ring by context t; a failure is returned
SendWrite(t, bytes, next) ==
    LET res == sunpci_ring_write(cmd_ring, bytes)
        l == loc[t]
    IN  /\ cmd_ring' = res.ring
        /\ IF res.ret < 0
           THEN Finish(t, l, res.ret)
           ELSE /\ loc' = [loc EXCEPT ![t] =
                             [l EXCEPT !.wrote = @ + res.ret]]
                /\ pc' = [pc EXCEPT ![t] = next]
        /\ UNCHANGED <<rsp_ring, scratch, mmio_base, doorbell, ipc_sequence,
                       guest, calls>>
        /\ UNCHANGED <<ringVars, hostVars>>

\* sunpci_ring_write(&dev->cmd_ring, &hdr, sizeof(hdr))
SendHdr(t) ==
    /\ pc[t] = "sc_hdr"
    /\ LET l == loc[t]
       IN  SendWrite(t, MsgHeaderBytes(l.dispatcher, l.command, l.seq,
                                       Mk32(l.cmd_len)),
                     IF l.cmd_len > 0 THEN "sc_payload" ELSE "sc_sync")

\* sunpci_ring_write(&dev->cmd_ring, payload, payload_len)
SendPayload(t) ==
    /\ pc[t] = "sc_payload"
    /\ SendWrite(t, CmdPayload(loc[t].seq, loc[t].cmd_len), "sc_sync")

\* sunpci_ring_sync_tail(&dev->cmd_ring, dev)
SendSync(t) ==
    /\ pc[t] = "sc_sync"
    /\ scratch' = sunpci_ring_sync_tail(cmd_ring, scratch, mmio_base)
    /\ pc' = [pc EXCEPT ![t] = "sc_bell"]
    /\ UNCHANGED <<cmd_ring, rsp_ring, mmio_base, doorbell, ipc_sequence,
                   loc, guest, calls>>
    /\ UNCHANGED <<ringVars, hostVars>>

\* sunpci_ring_doorbell(dev, SUNPCI_DOORBELL_CMD_READY); send_cmd returns 0,
\* and sunpci_ipc_transact goes on to sunpci_ipc_recv_rsp(dev, seq, ...)
SendBell(t) ==
    /\ pc[t] = "sc_bell"
    /\ doorbell' = IF mmio_base THEN doorbell \cup {"CMD_READY"} ELSE doorbell
    /\ LET l == [loc[t] EXCEPT !.rang = mmio_base, !.expected = loc[t].seq]
       IN  IF l.op = "send"
           THEN Finish(t, l, 0)
           ELSE /\ loc' = [loc EXCEPT ![t] = l]
                /\ pc' = [pc EXCEPT ![t] = "rr_sync"]
    /\ UNCHANGED <<cmd_ring, rsp_ring, scratch, mmio_base, ipc_sequence,
                   guest, calls>>
    /\ UNCHANGED <<ringVars, hostVars>>

(***************************************************************************)
(* The guest answering commands.  Its firmware is not part of the         *)
(* repository: it is taken to find the command frames in the command      *)
(* ring's memory and to answer each once, in any order.                   *)
(***************************************************************************)
GuestRespond ==
    \E sq \in CmdFrames(cmd_ring.buf, 0) \ Answered :
        GuestPut(GoodFrame(sq), <<"good", sq>>)

\* sunpci_ipc_send_cmd called from two contexts
SendOnly(t) == SendCall(t, "send", CmdLens)

SendNext ==
    \E t \in Threads :
         \/ SendOnly(t) \/ SendSeq(t) \/ SendSpace(t) \/ SendHdr(t)
         \/ SendPayload(t) \/ SendSync(t) \/ SendBell(t)

SendInit == RingAlone /\ HostInit /\ \E s \in SeqStarts : DeviceInitWith(s)

SpecSend == SendInit /\ [][SendNext]_vars

\* sunpci_ipc_transact called once from each of two contexts, and the guest
\* answering
TransactCall(t) ==
    /\ loc[t].op = "none"
    /\ SendCall(t, "transact", TransactLens)

TransactNext ==
    \/ GuestRespond
    \/ \E t \in Threads :
         \/ TransactCall(t) \/ SendSeq(t) \/ SendSpace(t) \/ SendHdr(t)
         \/ SendPayload(t) \/ SendSync(t) \/ SendBell(t)
         \/ RecvSync(t) \/ RecvUsed(t) \/ RecvPeek(t)
         \/ RecvSkipByte(t) \/ RecvSkipMsg(t) \/ RecvFull(t)
         \/ RecvConsume(t) \/ RecvRead(t) \/ RecvSkipRest(t)
         \/ RecvReturn(t) \/ RecvExpire(t)

SpecTransact == Init /\ [][TransactNext]_vars

(***************************************************************************)
(* ipc.c: sunpci_ipc_process_requests and sunpci_ipc_send_response, one   *)
(* step per access to shared state                                         *)
(***************************************************************************)
SUNPCI_DISP_CORE == 0
SUNPCI_DISP_VGA == 1
SUNPCI_DISP_NETWORK == 4
SUNPCI_DISP_FSD == 5
SUNPCI_DISP_CLIP == 7
SUNPCI_DISP_MAX == 9
CORE_CMD_CHANNEL_CREATE == 16
CORE_CMD_CHANNEL_DELETE == 17
CORE_CMD_CHANNEL_UNBIND == 19
STORAGE_CMD_SCSI == 13
FSD_CMD_OPEN == 3
FSD_CMD_UNLOCK == 20
CLIP_CMD_GET == 2
CLIP_CMD_NOTIFY == 3
CLIP_CMD_DATA == 4

\* what a handler answers: a status and a payload
Answer(status, payload) == [status |-> status, payload |-> payload]

\* channel.c, sunpci_dispatch_channel: the answers it may send
sunpci_dispatch_channel(command, payload_len) ==
    IF command = CORE_CMD_CHANNEL_DELETE /\ payload_len >= 4
    THEN {Answer(SUNPCI_RSP_SUCCESS, cpu_to_le32(Mk32(r))) : r \in {0, 1}}
    ELSE IF command = CORE_CMD_CHANNEL_CREATE /\ payload_len >= 136
    THEN {Answer(SUNPCI_RSP_SUCCESS, ZeroData(8))}
    ELSE {Answer(SUNPCI_RSP_INVALID_CMD, << >>)}

\* sunpci_dispatch_storage, _network, _fsd: the statuses they may send
\* (their payloads are left out)
sunpci_dispatch_storage(command, payload_len) ==
    IF payload_len < (IF command = STORAGE_CMD_SCSI THEN 28 ELSE 32)
    THEN {Answer(st, << >>) : st \in {SUNPCI_RSP_ERROR,
                                      SUNPCI_RSP_INVALID_CMD}}
    ELSE {Answer(st, << >>) : st \in {SUNPCI_RSP_SUCCESS, SUNPCI_RSP_ERROR}}
sunpci_dispatch_network(command, payload_len) ==
    IF payload_len < 16 THEN {Answer(SUNPCI_RSP_INVALID_CMD, << >>)}
    ELSE {Answer(st, << >>) : st \in {SUNPCI_RSP_SUCCESS, SUNPCI_RSP_ERROR}}
\* sunpci_fsd_handle_message has cases for FSD_CMD_OPEN .. FSD_CMD_UNLOCK;
\* its default returns -EINVAL, which is answered with SUNPCI_RSP_ERROR
sunpci_dispatch_fsd(command, payload_len) ==
    IF command \in FSD_CMD_OPEN..FSD_CMD_UNLOCK
    THEN {Answer(st, << >>) : st \in {SUNPCI_RSP_SUCCESS, SUNPCI_RSP_ERROR,
                                      SUNPCI_RSP_INVALID_CMD}}
    ELSE {Answer(SUNPCI_RSP_ERROR, << >>)}

\* sunpci_dispatch_clipboard
sunpci_dispatch_clipboard(command, payload_len) ==
    IF command \in {CLIP_CMD_NOTIFY, CLIP_CMD_DATA}
    THEN {Answer(SUNPCI_RSP_SUCCESS, << >>)}
    ELSE IF command = CLIP_CMD_GET
    THEN {Answer(st, << >>) : st \in {SUNPCI_RSP_SUCCESS, SUNPCI_RSP_ERROR}}
    ELSE {Answer(SUNPCI_RSP_INVALID_CMD, << >>)}

\* switch (dispatcher) of sunpci_ipc_process_requests
Dispatch(dispatcher, command, payload_len) ==
    CASE dispatcher = SUNPCI_DISP_CORE ->
            IF command >= CORE_CMD_CHANNEL_CREATE
                  /\ command <= CORE_CMD_CHANNEL_UNBIND
            THEN sunpci_dispatch_channel(command, payload_len)
            ELSE {Answer(SUNPCI_RSP_INVALID_CMD, << >>)}
      [] dispatcher = SUNPCI_DISP_STORAGE ->
            sunpci_dispatch_storage(command, payload_len)
      [] dispatcher = SUNPCI_DISP_NETWORK ->
            sunpci_dispatch_network(command, payload_len)
      [] dispatcher = SUNPCI_DISP_FSD ->
            sunpci_dispatch_fsd(command, payload_len)
      [] dispatcher = SUNPCI_DISP_CLIP ->
            sunpci_dispatch_clipboard(command, payload_len)
      [] OTHER -> {Answer(SUNPCI_RSP_INVALID_DISP, << >>)}

\* the work item starts running
WorkerStart(t) ==
    /\ pc[t] = "idle"
    /\ loc' = [loc EXCEPT ![t] =
                 [Loc0 EXCEPT !.op = "worker", !.fresh = guest.done,
                              !.log = loc[t].log]]
    /\ pc' = [pc EXCEPT ![t] = "w_sync"]
    /\ UNCHANGED <<cmd_ring, rsp_ring, scratch, mmio_base, doorbell,
                   ipc_sequence, guest, calls>>
    /\ UNCHANGED <<ringVars, hostVars>>

\* sunpci_ring_sync_head(&dev->rsp_ring, dev)
WorkSync(t) ==
    /\ pc[t] = "w_sync"
    /\ rsp_ring' = sunpci_ring_sync_head(rsp_ring, scratch, mmio_base)
    /\ pc' = [pc EXCEPT ![t] = "w_used"]
    /\ UNCHANGED <<cmd_ring, scratch, mmio_base, doorbell, ipc_sequence,
                   loc, guest, calls>>
    /\ UNCHANGED <<ringVars, hostVars>>

\* the loop is left by `break': the work item ends
WorkBreak(t) ==
    /\ loc' = [loc EXCEPT ![t] = [@ EXCEPT !.fin = TRUE]]
    /\ pc' = [pc EXCEPT ![t] = "idle"]

\* if (sunpci_ring_used(&dev->rsp_ring) < sizeof(hdr)) break
WorkUsed(t) ==
    /\ pc[t] = "w_used"
    /\ IF sunpci_ring_used(rsp_ring) < SUNPCI_MSG_HDR_SIZE
       THEN WorkBreak(t)
       ELSE /\ pc' = [pc EXCEPT ![t] = "w_peek"]
            /\ UNCHANGED loc
    /\ UNCHANGED <<cmd_ring, rsp_ring, scratch, mmio_base, doorbell,
                   ipc_sequence, guest, calls>>
    /\ UNCHANGED <<ringVars, hostVars>>

\* sunpci_ring_peek(&dev->rsp_ring, &hdr, sizeof(hdr)) and the magic check
WorkPeek(t) ==
    /\ pc[t] = "w_peek"
    /\ LET h == sunpci_ring_peek(rsp_ring, SUNPCI_MSG_HDR_SIZE).data
       IN  /\ loc' = [loc EXCEPT ![t] = [@ EXCEPT !.hdr = h]]
           /\ pc' = [pc EXCEPT ![t] =
                        IF HdrMagic(h) # SUNPCI_MSG_MAGIC
                        THEN "w_skip1" ELSE "w_full"]
    /\ UNCHANGED <<cmd_ring, rsp_ring, scratch, mmio_base, doorbell,
                   ipc_sequence, guest, calls>>
    /\ UNCHANGED <<ringVars, hostVars>>

\* bad request magic: sunpci_ring_skip(&dev->rsp_ring, 1); continue
WorkSkipByte(t) ==
    /\ pc[t] = "w_skip1"
    /\ RecvSkipTo(t, sunpci_ring_skip(rsp_ring, 1), "w_sync")

\* if (used < sizeof(hdr) + payload_len) break: wait for more data
WorkFull(t) ==
    /\ pc[t] = "w_full"
    /\ IF ~UsedCovers(sunpci_ring_used(rsp_ring), HdrPayloadLen(loc[t].hdr))
       THEN WorkBreak(t)
       ELSE /\ pc' = [pc EXCEPT ![t] = "w_consume"]
            /\ UNCHANGED loc
    /\ UNCHANGED <<cmd_ring, rsp_ring, scratch, mmio_base, doorbell,
                   ipc_sequence, guest, calls>>
    /\ UNCHANGED <<ringVars, hostVars>>

\* sunpci_ipc_send_response returns ret to the work loop, which goes on
\* to the next frame
RspReturn(t, ret) ==
    LET l == loc[t]
    IN  /\ loc' = [loc EXCEPT ![t] =
              [l EXCEPT !.log = Append(@,
                   [dispatcher |-> HdrDispatcher(l.hdr),
                    command |-> HdrCommand(l.hdr),
                    sequence |-> HdrSequence(l.hdr),
                    status |-> l.status, ret |-> ret])]]
        /\ pc' = [pc EXCEPT ![t] = "w_sync"]

\* consume header: sunpci_ring_skip(&dev->rsp_ring, sizeof(hdr)); a payload
\* longer than SUNPCI_MAX_PAYLOAD is skipped and answered with an error
WorkConsume(t) ==
    /\ pc[t] = "w_consume"
    /\ LET l == loc[t]
           plen == HdrPayloadLen(l.hdr)
           res == sunpci_ring_skip(rsp_ring, SUNPCI_MSG_HDR_SIZE)
       IN  IF ToInt(plen) > SUNPCI_MAX_PAYLOAD
           THEN /\ rsp_ring' = sunpci_ring_skip32(res.ring, plen).ring
                /\ loc' = [loc EXCEPT ![t] =
                             [l EXCEPT !.status = SUNPCI_RSP_ERROR,
                                       !.rsp = << >>]]
                /\ pc' = [pc EXCEPT ![t] = "r_space"]
           ELSE /\ rsp_ring' = res.ring
                /\ pc' = [pc EXCEPT ![t] =
                             IF ToInt(plen) > 0 THEN "w_read"
                             ELSE "w_dispatch"]
                /\ UNCHANGED loc
    /\ UNCHANGED <<cmd_ring, scratch, mmio_base, doorbell, ipc_sequence,
                   guest, calls>>
    /\ UNCHANGED <<ringVars, hostVars>>

\* sunpci_ring_read(&dev->rsp_ring, payload_buf, payload_len)
WorkRead(t) ==
    /\ pc[t] = "w_read"
    /\ LET res == sunpci_ring_read(rsp_ring,
                                   ToInt(HdrPayloadLen(loc[t].hdr)))
       IN  /\ rsp_ring' = res.ring
           /\ loc' = [loc EXCEPT ![t] = [@ EXCEPT !.data = res.data]]
    /\ pc' = [pc EXCEPT ![t] = "w_dispatch"]
    /\ UNCHANGED <<cmd_ring, scratch, mmio_base, doorbell, ipc_sequence,
                   guest, calls>>
    /\ UNCHANGED <<ringVars, hostVars>>

\* the switch on the dispatcher; the handler decides the answer and calls
\* sunpci_ipc_send_response
WorkDispatch(t) ==
    /\ pc[t] = "w_dispatch"
    /\ LET l == loc[t]
       IN  \E a \in Dispatch(HdrDispatcher(l.hdr), HdrCommand(l.hdr),
                             ToInt(HdrPayloadLen(l.hdr))) :
              loc' = [loc EXCEPT ![t] =
                         [l EXCEPT !.status = a.status, !.rsp = a.payload]]
    /\ pc' = [pc EXCEPT ![t] = "r_space"]
    /\ UNCHANGED <<cmd_ring, rsp_ring, scratch, mmio_base, doorbell,
                   ipc_sequence, guest, calls>>
    /\ UNCHANGED <<ringVars, hostVars>>

\* send_response: if (sunpci_ring_space(&dev->rsp_ring) < total_len)
\* return -ENOSPC
RspSpace(t) ==
    /\ pc[t] = "r_space"
    /\ IF sunpci_ring_space(rsp_ring)
             < SUNPCI_MSG_HDR_SIZE + Len(loc[t].rsp)
       THEN RspReturn(t, -ENOSPC)
       ELSE /\ pc' = [pc EXCEPT ![t] = "r_hdr"]
            /\ UNCHANGED loc
    /\ UNCHANGED <<cmd_ring, rsp_ring, scratch, mmio_base, doorbell,
                   ipc_sequence, guest, calls>>
    /\ UNCHANGED <<ringVars, hostVars>>

\* a write by sunpci_ipc_send_response: the ring it writes is rsp_ring
RspWrite(t, bytes, next) ==
    LET res == sunpci_ring_write(rsp_ring, bytes)
    IN  /\ rsp_ring' = res.ring
        /\ IF res.ret < 0
           THEN RspReturn(t, res.ret)
           ELSE /\ loc' = [loc EXCEPT ![t] =
                             [@ EXCEPT !.wrote = @ + res.ret]]
                /\ pc' = [pc EXCEPT ![t] = next]
        /\ UNCHANGED <<cmd_ring, scratch, mmio_base, doorbell, ipc_sequence,
                       guest, calls>>
        /\ UNCHANGED <<ringVars, hostVars>>

\* sunpci_ring_write(&dev->rsp_ring, &hdr, sizeof(hdr))
RspHdr(t) ==
    /\ pc[t] = "r_hdr"
    /\ LET l == loc[t]
       IN  RspWrite(t, RspHeaderBytes(l.status, HdrSequence(l.hdr),
                                      Mk32(Len(l.rsp))),
                    IF Len(l.rsp) > 0 THEN "r_payload" ELSE "r_sync")

\* sunpci_ring_write(&dev->rsp_ring, payload, payload_len)
RspPayload(t) ==
    /\ pc[t] = "r_payload"
    /\ RspWrite(t, loc[t].rsp, "r_sync")

\* sunpci_ring_sync_tail(&dev->rsp_ring, dev)
RspSync(t) ==
    /\ pc[t] = "r_sync"
    /\ scratch' = sunpci_ring_sync_tail(rsp_ring, scratch, mmio_base)
    /\ pc' = [pc EXCEPT ![t] = "r_bell"]
    /\ UNCHANGED <<cmd_ring, rsp_ring, mmio_base, doorbell, ipc_sequence,
                   loc, guest, calls>>
    /\ UNCHANGED <<ringVars, hostVars>>

\* iowrite32(SUNPCI_DOORBELL_RSP_READY, ...); return 0
RspBell(t) ==
    /\ pc[t] = "r_bell"
    /\ doorbell' = doorbell \cup {"RSP_READY"}
    /\ RspReturn(t, 0)
    /\ UNCHANGED <<cmd_ring, rsp_ring, scratch, mmio_base, ipc_sequence,
                   guest, calls>>
    /\ UNCHANGED <<ringVars, hostVars>>

(***************************************************************************)
(* The guest sending requests                                              *)
(***************************************************************************)
ReqKinds ==
    {[dispatcher |-> SUNPCI_DISP_CORE, command |-> CORE_CMD_CHANNEL_DELETE,
      payload |-> <<1, 0, 0, 0>>],
     [dispatcher |-> SUNPCI_DISP_VGA, command |-> 1, payload |-> << >>],
     [dispatcher |-> SUNPCI_DISP_CLIP, command |-> CLIP_CMD_NOTIFY,
      payload |-> << >>],
     [dispatcher |-> SUNPCI_DISP_FSD, command |-> FSD_CMD_UNLOCK + 1,
      payload |-> << >>],
     [dispatcher |-> SUNPCI_DISP_MAX, command |-> 1, payload |-> << >>]}

RequestFrame(k, sequence) ==
    MsgHeaderBytes(k.dispatcher, k.command, sequence, Mk32(Len(k.payload)))
        \o k.payload

GuestRequest ==
    \E k \in ReqKinds :
        LET sq == Mk32(Len(guest.frames) + 1)
        IN  GuestPut(RequestFrame(k, sq), <<"request", sq, k.dispatcher>>)

WorkerNext ==
    \/ GuestRequest \/ GuestTruncated \/ GuestCorrupt \/ GuestStop
    \/ \E t \in {"t1"} :
         \/ WorkerStart(t) \/ WorkSync(t) \/ WorkUsed(t) \/ WorkPeek(t)
         \/ WorkSkipByte(t) \/ WorkFull(t) \/ WorkConsume(t) \/ WorkRead(t)
         \/ WorkDispatch(t) \/ RspSpace(t) \/ RspHdr(t) \/ RspPayload(t)
         \/ RspSync(t) \/ RspBell(t)

SpecWorker == Init /\ [][WorkerNext]_vars

\* a finished call of sunpci_ipc_recv_rsp
RecvDone(l) == l.op = "recv" /\ l.fin

\* the call handed back frame f: its status, its length, and the first
\* min(cap, length) bytes of its payload
Returned(l, f) ==
    LET h == Prefix(f, SUNPCI_MSG_HDR_SIZE)
        n == ToInt(HdrPayloadLen(h))
    IN  /\ l.ret = 0
        /\ l.status = HdrStatus(h)
        /\ l.actual_len = HdrPayloadLen(h)
        /\ l.data = SubSeq(f, SUNPCI_MSG_HDR_SIZE + 1,
                           SUNPCI_MSG_HDR_SIZE + (IF l.cap < n THEN l.cap ELSE n))

\* content c begins with 16 bytes whose magic is bad, followed by the
\* complete well-formed frame of sequence sq
CorruptThenGood(c, sq) ==
    /\ Len(c) >= SUNPCI_MSG_HDR_SIZE + Len(GoodFrame(sq))
    /\ HdrMagic(Prefix(c, SUNPCI_MSG_HDR_SIZE)) # SUNPCI_MSG_MAGIC
    /\ SubSeq(c, SUNPCI_MSG_HDR_SIZE + 1,
              SUNPCI_MSG_HDR_SIZE + Len(GoodFrame(sq))) = GoodFrame(sq)

\* the first 16 bytes of c hold the magic at none of the offsets 1..12
MagicFree(c) ==
    \A o \in 1..(SUNPCI_MSG_HDR_SIZE - 4) : le32_to_cpu(c, o) # SUNPCI_MSG_MAGIC

\* the call of C4: a nonzero timeout that was sufficient, and a ring that
\* held a corrupted header followed by the frame the caller expects
ResyncCase(l, sq) ==
    /\ RecvDone(l)
    /\ l.tmo # "zero" /\ ~l.early
    /\ CorruptThenGood(l.at_call, sq)
    /\ l.expected \in {Mk32(0), sq}

\* C4 (amended): when the ring holds a bad-magic 16-byte header that
\* contains the magic at no offset 1..12, followed by a complete
\* well-formed frame with the expected sequence, a call with a sufficient
\* nonzero timeout returns that frame.
C4_Resync ==
    \A t \in Threads : \A sq \in GuestSeqs :
        ResyncCase(loc[t], sq) /\ MagicFree(loc[t].at_call)
            => Returned(loc[t], GoodFrame(sq))

C4_Witness ==
    \E sq \in GuestSeqs :
        /\ ResyncCase(loc["t1"], sq)
        /\ MagicFree(loc["t1"].at_call)
        /\ loc["t1"].ret = 0
        /\ Len(loc["t1"].data) > 0

\* C4 as stated: whatever the corrupted header holds, the frame behind it
\* is returned.
C4_Original ==
    \A t \in Threads : \A sq \in GuestSeqs :
        ResyncCase(loc[t], sq) => Returned(loc[t], GoodFrame(sq))

\* C8: a finished call with timeout zero returns the frame that was
\* complete and matching at the head of the ring when the call looked, and
\* -EAGAIN when there was none; a call with a nonzero timeout returns
\* -ETIMEDOUT unless it returns a frame; and a frame is only ever returned
\* from a header with the magic and an acceptable sequence.
C8_RecvResult ==
    \A t \in Threads :
        LET l == loc[t]
        IN  RecvDone(l) =>
              /\ l.tmo = "zero" /\ l.first_ready
                    => Returned(l, l.first_view)
              /\ l.tmo = "zero" /\ ~l.first_ready => l.ret = -EAGAIN
              /\ l.tmo # "zero" => l.ret \in {0, -ETIMEDOUT}
              /\ l.ret = 0 =>
                    /\ HdrMagic(l.hdr) = SUNPCI_MSG_MAGIC
                    /\ l.expected \in {Mk32(0), HdrSequence(l.hdr)}

C8_Witness ==
    /\ RecvDone(loc["t1"])
    /\ loc["t1"].tmo = "zero"
    /\ loc["t1"].first_ready
    /\ loc["t1"].ret = 0
    /\ Len(loc["t1"].data) > 0

\* a finished call of sunpci_ipc_transact, and one that was handed a frame
\* by sunpci_ipc_recv_rsp (recv_rsp returned 0)
TransactDone(l) == l.op = "transact" /\ l.fin
GotResponse(l) == l.ret \in {0, -EIO}

Allocated(t) == loc[t].op # "none" /\ pc[t] # "sc_seq"
NAlloc == calls - Cardinality({t \in Threads : pc[t] = "sc_seq"})

\* C6: the k-th call of sunpci_ipc_send_cmd draws the counter's start plus
\* k modulo 2^32 (1 for the first call after the module is loaded), and two
\* contexts in a call never hold the same sequence number.
C6_Sequence ==
    /\ \E s \in SeqStarts :
          /\ ipc_sequence = Add32(s, NAlloc)
          /\ \A t \in Threads :
                Allocated(t) => \E k \in 1..NAlloc : loc[t].seq = Add32(s, k)
    /\ \A t, u \in Threads :
          t # u /\ Allocated(t) /\ Allocated(u) => loc[t].seq # loc[u].seq

\* two calls outstanding across the wrap: 2^32 - 1, then 0
C6_Witness ==
    /\ pc["t1"] \notin {"idle", "sc_seq"}
    /\ pc["t2"] \notin {"idle", "sc_seq"}
    /\ {loc["t1"].seq, loc["t2"].seq} = {W32(65535, 65535), Mk32(0)}

\* C7: a call that finds less free space in the command ring than 16 plus
\* its payload length ends there with -ENOSPC, having written nothing and
\* rung no doorbell.
C7_RingFull ==
    \A t \in Threads :
        LET l == loc[t]
        IN  /\ l.op # "none"
            /\ l.space_seen >= 0
            /\ l.space_seen < SUNPCI_MSG_HDR_SIZE + l.cmd_len
            => /\ l.fin
               /\ l.ret = -ENOSPC
               /\ l.wrote = 0
               /\ ~l.rang

\* the header alone would have fitted
C7_Witness ==
    \E t \in Threads :
        /\ loc[t].fin
        /\ loc[t].ret = -ENOSPC
        /\ loc[t].space_seen >= SUNPCI_MSG_HDR_SIZE
        /\ loc[t].space_seen < SUNPCI_MSG_HDR_SIZE + loc[t].cmd_len
        /\ sunpci_ring_used(cmd_ring) > 0

\* a finished run of sunpci_ipc_process_requests
WorkerDone(t) == loc[t].op = "worker" /\ loc[t].fin /\ pc[t] = "idle"

\* C5: every response that sunpci_ipc_send_response reports as sent is a
\* frame in the outbound (host-to-guest) ring cmd_ring that carries the
\* sequence number of the request it answers.
C5_Original ==
    \A t \in Threads : \A i \in DOMAIN loc[t].log :
        loc[t].log[i].ret = 0
            => loc[t].log[i].sequence \in CmdFrames(cmd_ring.buf, 0)

\* C9: when the guest has written a header with the magic whose payload
\* never arrives and well-formed requests behind it, a run of the request
\* worker that starts after the guest's last write has processed those
\* requests by the time it ends.
C9_Original ==
    \A t \in Threads :
        /\ WorkerDone(t)
        /\ loc[t].fresh
        /\ Len(guest.frames) >= 2
        /\ guest.frames[1][1] = "truncated"
        /\ \A i \in 2..Len(guest.frames) : guest.frames[i][1] = "request"
        => \A i \in 2..Len(guest.frames) :
              \E j \in DOMAIN loc[t].log :
                  loc[t].log[j].sequence = guest.frames[i][2]

\* C10: a request is answered with SUNPCI_RSP_INVALID_DISP exactly when its
\* dispatcher ID is not one of 0..8.
C10_Original ==
    \A t \in Threads : \A i \in DOMAIN loc[t].log :
        loc[t].log[i].status = SUNPCI_RSP_INVALID_DISP
            <=> loc[t].log[i].dispatcher \notin 0..(SUNPCI_DISP_MAX - 1)

\* the command codes ipc.h and fsd.c define for the dispatchers that have a
\* handler
DefinedCmds(dispatcher) ==
    CASE dispatcher = SUNPCI_DISP_CORE ->
            (1..6) \cup (CORE_CMD_CHANNEL_CREATE..CORE_CMD_CHANNEL_UNBIND)
      [] dispatcher = SUNPCI_DISP_STORAGE -> 1..STORAGE_CMD_SCSI
      [] dispatcher = SUNPCI_DISP_NETWORK -> 1..11
      [] dispatcher = SUNPCI_DISP_FSD -> 1..FSD_CMD_UNLOCK
      [] dispatcher = SUNPCI_DISP_CLIP -> 1..CLIP_CMD_DATA
      [] OTHER -> {}

Handled ==
    {SUNPCI_DISP_CORE, SUNPCI_DISP_STORAGE, SUNPCI_DISP_NETWORK,
     SUNPCI_DISP_FSD, SUNPCI_DISP_CLIP}

\* C11: a request to a dispatcher that has a handler, carrying a command
\* code the dispatcher does not define, is answered with
\* SUNPCI_RSP_INVALID_CMD.
C11_Original ==
    \A t \in Threads : \A i \in DOMAIN loc[t].log :
        /\ loc[t].log[i].dispatcher \in Handled
        /\ loc[t].log[i].command \notin DefinedCmds(loc[t].log[i].dispatcher)
        => loc[t].log[i].status = SUNPCI_RSP_INVALID_CMD

(***************************************************************************)
(* storage.c: 64-bit quantities (u64, loff_t), as four 16-bit digits, most *)
(* significant first                                                       *)
(***************************************************************************)
U64Of(n) == <<0, 0, n \div 65536, n % 65536>>
\* ((u64)hi << 32) | lo
U64From32(hi, lo) == <<hi.hi, hi.lo, lo.hi, lo.lo>>
\* a + b modulo 2^64
Add64(a, b) ==
    LET s4 == a[4] + b[4]
        s3 == a[3] + b[3] + (s4 \div 65536)
        s2 == a[2] + b[2] + (s3 \div 65536)
        s1 == a[1] + b[1] + (s2 \div 65536)
    IN  <<s1 % 65536, s2 % 65536, s3 % 65536, s4 % 65536>>
\* a * m modulo 2^64, for 0 <= m < 32768
Mul64(a, m) ==
    LET p4 == a[4] * m
        p3 == a[3] * m + (p4 \div 65536)
        p2 == a[2] * m + (p3 \div 65536)
        p1 == a[1] * m + (p2 \div 65536)
    IN  <<p1 % 65536, p2 % 65536, p3 % 65536, p4 % 65536>>
\* a / d, for 0 < d < 32768
Div64(a, d) ==
    LET n1 == a[1]
        n2 == (n1 % d) * 65536 + a[2]
        n3 == (n2 % d) * 65536 + a[3]
        n4 == (n3 % d) * 65536 + a[4]
    IN  <<n1 \div d, n2 \div d, n3 \div d, n4 \div d>>
\* a < b
Lt64(a, b) ==
    \E i \in 1..4 : a[i] < b[i] /\ \A j \in 1..(i - 1) : a[j] = b[j]
Le64(a, b) == ~Lt64(b, a)
\* (u32)a
Lo32(a) == W32(a[3], a[4])
\* a u32 widened to 64 bits
Widen(w) == <<0, 0, w.hi, w.lo>>

(***************************************************************************)
(* storage.c: geometry                                                     *)
(***************************************************************************)
SECTOR_SIZE_HD == 512
SECTOR_SIZE_CDROM == 2048
SECTOR_SIZE_FLOPPY == 512

Geometry(c, h, sc) == [cylinders |-> c, heads |-> h, sectors |-> sc]

\* the u32 cyls is assigned the 64-bit quotient, then clamped to 1024
calc_geometry(total_sectors, sector_size) ==
    LET size_mb == Div64(Div64(Mul64(total_sectors, sector_size), 1024), 1024)
        sectors == 63
        heads == IF Le64(size_mb, U64Of(504)) THEN 16
                 ELSE IF Le64(size_mb, U64Of(1008)) THEN 32
                 ELSE IF Le64(size_mb, U64Of(2016)) THEN 64
                 ELSE IF Le64(size_mb, U64Of(4032)) THEN 128
                 ELSE 255
        cyls == Lo32(Div64(total_sectors, heads * sectors))
    IN  Geometry(IF cyls.hi > 0 \/ cyls.lo > 1024 THEN Mk32(1024) ELSE cyls,
                 heads, sectors)

calc_floppy_geometry(size) ==
    IF size = U64Of(1474560) THEN Geometry(Mk32(80), 2, 18)
    ELSE IF size = U64Of(1228800) THEN Geometry(Mk32(80), 2, 15)
    ELSE IF size = U64Of(737280) THEN Geometry(Mk32(80), 2, 9)
    ELSE IF size = U64Of(368640) THEN Geometry(Mk32(40), 2, 9)
    ELSE IF size = U64Of(163840) THEN Geometry(Mk32(40), 1, 8)
    ELSE Geometry(Mk32(80), 2, 18)

(***************************************************************************)
(* storage.c: image files, validation, opening and sector I/O             *)
(***************************************************************************)
ENOENT == 2
ENOMEM == 12
ENODEV == 19
EROFS == 30
MAX_SECTORS_PER_IO == 128
SCSI_DATA_MAX_LEN == 65536
SUNPCI_DISK_MAGIC == W32(21328, 17225)         \* 0x53504349
\* "CD001", looked for at offset 16 * 2048 + 1
ISO9660_MAGIC == <<67, 68, 48, 48, 49>>

\* the files the control program may name.  size is i_size_read(), sig the
\* five bytes at ISO9660_MAGIC_OFFSET, magic the little-endian word at
\* offset 12, boot the two bytes at offset 510.
Images ==
    [iso    |-> [size |-> U64Of(40960), sig |-> ISO9660_MAGIC,
                 magic |-> Mk32(0), boot |-> <<0, 0>>],
     badiso |-> [size |-> U64Of(40960), sig |-> <<67, 68, 48, 48, 50>>,
                 magic |-> Mk32(0), boot |-> <<0, 0>>],
     fd144  |-> [size |-> U64Of(1474560), sig |-> <<0, 0, 0, 0, 0>>,
                 magic |-> Mk32(0), boot |-> <<85, 170>>],
     fd720  |-> [size |-> U64Of(737280), sig |-> <<0, 0, 0, 0, 0>>,
                 magic |-> Mk32(0), boot |-> <<85, 170>>],
     fd1m   |-> [size |-> U64Of(1000000), sig |-> <<0, 0, 0, 0, 0>>,
                 magic |-> Mk32(0), boot |-> <<85, 170>>],
     fd160  |-> [size |-> U64Of(163840), sig |-> <<0, 0, 0, 0, 0>>,
                 magic |-> Mk32(0), boot |-> <<85, 170>>],
     fd180  |-> [size |-> U64Of(184320), sig |-> <<0, 0, 0, 0, 0>>,
                 magic |-> Mk32(0), boot |-> <<85, 170>>],
     fd320  |-> [size |-> U64Of(327680), sig |-> <<0, 0, 0, 0, 0>>,
                 magic |-> Mk32(0), boot |-> <<85, 170>>],
     fd360  |-> [size |-> U64Of(368640), sig |-> <<0, 0, 0, 0, 0>>,
                 magic |-> Mk32(0), boot |-> <<85, 170>>],
     fd12   |-> [size |-> U64Of(1228800), sig |-> <<0, 0, 0, 0, 0>>,
                 magic |-> Mk32(0), boot |-> <<85, 170>>],
     fd288  |-> [size |-> U64Of(2949120), sig |-> <<0, 0, 0, 0, 0>>,
                 magic |-> Mk32(0), boot |-> <<85, 170>>],
     hd100  |-> [size |-> U64Of(104857600), sig |-> <<0, 0, 0, 0, 0>>,
                 magic |-> SUNPCI_DISK_MAGIC, boot |-> <<0, 0>>],
     mbr    |-> [size |-> U64Of(1048576), sig |-> <<0, 0, 0, 0, 0>>,
                 magic |-> Mk32(0), boot |-> <<85, 170>>],
     tiny   |-> [size |-> U64Of(100), sig |-> << >>,
                 magic |-> Mk32(0), boot |-> << >>],
     \* 16065 * 2^32 sectors of 512 bytes
     huge   |-> [size |-> <<125, 33280, 0, 0>>, sig |-> <<0, 0, 0, 0, 0>>,
                 magic |-> SUNPCI_DISK_MAGIC, boot |-> <<0, 0>>]]

\* the paths passed to the mount calls; "missing" names no file
Paths == DOMAIN Images \cup {"missing"}

valid_floppy_sizes ==
    {U64Of(163840), U64Of(184320), U64Of(327680), U64Of(368640),
     U64Of(737280), U64Of(1228800), U64Of(1474560), U64Of(2949120)}

\* readok: kernel_read returned all the bytes asked for
validate_iso9660(img, readok) ==
    IF Lt64(img.size, U64Of(17 * 2048)) THEN -EINVAL
    ELSE IF ~readok THEN -EIO
    ELSE IF img.sig # ISO9660_MAGIC THEN -EINVAL
    ELSE 0

validate_floppy(size) ==
    IF size \in valid_floppy_sizes THEN 0 ELSE -EINVAL

\* without the SunPCi magic the MBR signature is looked for, and the image
\* is accepted whether or not it is found
validate_hdd(img, readok) ==
    IF Lt64(img.size, U64Of(SECTOR_SIZE_HD)) THEN -EINVAL
    ELSE IF ~readok THEN -EIO
    ELSE IF img.magic = SUNPCI_DISK_MAGIC THEN 0
    ELSE IF img.boot = <<85, 170>> THEN 0
    ELSE 0

\* faulty variant: the volume descriptor is not looked at
validate_any(path, type, readok) == 0

\* the switch on the device type in storage_open_image
validate(path, type, readok) ==
    IF type = "CDROM" THEN validate_iso9660(Images[path], readok)
    ELSE IF type = "FLOPPY" THEN validate_floppy(Images[path].size)
    ELSE validate_hdd(Images[path], readok)

\* a struct sunpci_storage_dev with an image open
StorageDev(path, size, sector_size, readonly, g) ==
    [file |-> path, mounted |-> TRUE, size |-> size,
     sector_size |-> sector_size, readonly |-> readonly,
     total_sectors |-> Div64(size, sector_size),
     cylinders |-> g.cylinders, heads |-> g.heads, sectors |-> g.sectors]

\* the result and, on success, the device filled in
storage_open_image(path, readonly, sector_size, type, readok) ==
    IF path \notin DOMAIN Images THEN [ret |-> -ENOENT, sdev |-> NoDev]
    ELSE LET size == Images[path].size
             ret == validate(path, type, readok)
         IN  IF ret < 0 THEN [ret |-> ret, sdev |-> NoDev]
             ELSE [ret |-> 0,
                   sdev |-> StorageDev(path, size, sector_size, readonly,
                              IF type = "FLOPPY"
                              THEN calc_floppy_geometry(size)
                              ELSE calc_geometry(Div64(size, sector_size),
                                                 sector_size))]

\* faulty variant: the range is not checked
BeyondEnd_never(sdev, lba, count) == FALSE

\* lba + count > sdev->total_sectors, the sum taken in 64 bits
BeyondEnd(sdev, lba, count) ==
    Lt64(sdev.total_sectors, Add64(lba, Widen(count)))

\* a kernel_read or kernel_write call on the backing file
FileIo(op, sdev, lba, count) ==
    [op |-> op, file |-> sdev.file, lba |-> lba, count |-> count]

\* kres: what kernel_read returned ("ok": len, "short": fewer, "err": < 0)
storage_read_sectors(sdev, lba, count, kres) ==
    IF sdev.file = "none" \/ ~sdev.mounted
    THEN [ret |-> -ENODEV, io |-> << >>]
    ELSE IF BeyondEnd(sdev, lba, count)
    THEN [ret |-> -EINVAL, io |-> << >>]
    ELSE [ret |-> IF kres = "ok" THEN 0 ELSE -EIO,
          io |-> <<FileIo("kernel_read", sdev, lba, count)>>]

\* faulty variant: the read-only flag is not looked at
IsReadonly_never(sdev) == FALSE

IsReadonly(sdev) == sdev.readonly

storage_write_sectors(sdev, lba, count, kres) ==
    IF sdev.file = "none" \/ ~sdev.mounted
    THEN [ret |-> -ENODEV, io |-> << >>]
    ELSE IF IsReadonly(sdev)
    THEN [ret |-> -EROFS, io |-> << >>]
    ELSE IF BeyondEnd(sdev, lba, count)
    THEN [ret |-> -EINVAL, io |-> << >>]
    ELSE [ret |-> IF kres = "ok" THEN 0 ELSE -EIO,
          io |-> <<FileIo("kernel_write", sdev, lba, count)>>]

(***************************************************************************)
(* storage.c: requests from the guest                                      *)
(***************************************************************************)
STORAGE_CMD_READ == 1
STORAGE_CMD_WRITE == 2
STORAGE_CMD_VERIFY == 3
STORAGE_CMD_FORMAT == 4
STORAGE_CMD_GET_PARAMS == 5
STORAGE_CMD_GET_TYPE == 6
STORAGE_CMD_RESET == 7
STORAGE_CMD_RECAL == 8
STORAGE_CMD_EJECT == 10
STORAGE_CMD_UNMOUNT == 12

STORAGE_STATUS_OK == 0
STORAGE_STATUS_BAD_CMD == 1
STORAGE_STATUS_WRITE_PROT == 3
STORAGE_STATUS_SECTOR_NF == 4
STORAGE_STATUS_NO_MEDIA == 170

\* NULL is NoDev
get_storage_dev(st, drive) ==
    IF drive >= 128 /\ drive <= 129
    THEN st[IF drive = 128 THEN "disk0" ELSE "disk1"]
    ELSE IF drive <= 1 THEN st[IF drive = 0 THEN "floppy0" ELSE "floppy1"]
    ELSE IF drive = 224 THEN st["cdrom"]
    ELSE NoDev

\* w - 1 modulo 2^32
Dec32(w) ==
    IF w.lo > 0 THEN W32(w.hi, w.lo - 1)
    ELSE W32((w.hi + 65535) % 65536, 65535)

\* ((u64)cylinder * num_heads + head) * sectors_per_track + (sector - 1),
\* the last term computed in 32 bits
chs_to_lba(cylinder, head, sector, num_heads, sectors_per_track) ==
    Add64(Mul64(Add64(Mul64(Widen(cylinder), num_heads), Widen(head)),
                sectors_per_track),
          Widen(Dec32(sector)))

StorageRsp(status, count, io) ==
    [ret |-> 0, status |-> status, count |-> count, io |-> io]

\* the request's lba: lba_hi:lba_lo unless both are zero
RequestLba(sdev, req) ==
    IF req.lba_hi # Mk32(0) \/ req.lba_lo # Mk32(0)
    THEN U64From32(req.lba_hi, req.lba_lo)
    ELSE chs_to_lba(req.cylinder, req.head, req.sector,
                    sdev.heads, sdev.sectors)

\* count after `if (count > MAX_SECTORS_PER_IO) count = MAX_SECTORS_PER_IO'
ClampCount(count) ==
    IF count.hi > 0 \/ count.lo > MAX_SECTORS_PER_IO
    THEN MAX_SECTORS_PER_IO ELSE count.lo

sunpci_storage_handle_request(st, req, kres) ==
    LET sdev == get_storage_dev(st, req.drive)
    IN  IF ~sdev.mounted
        THEN StorageRsp(STORAGE_STATUS_NO_MEDIA, Mk32(0), << >>)
        ELSE
        LET lba == RequestLba(sdev, req)
            count == ClampCount(req.count)
        IN  CASE req.command = STORAGE_CMD_READ ->
                   IF SCSI_DATA_MAX_LEN < count * sdev.sector_size
                   THEN StorageRsp(STORAGE_STATUS_BAD_CMD, Mk32(0), << >>)
                   ELSE LET r == storage_read_sectors(sdev, lba, Mk32(count),
                                                      kres)
                        IN  IF r.ret < 0
                            THEN StorageRsp(STORAGE_STATUS_SECTOR_NF, Mk32(0),
                                            r.io)
                            ELSE StorageRsp(STORAGE_STATUS_OK, Mk32(count),
                                            r.io)
              [] req.command = STORAGE_CMD_WRITE ->
                   LET r == storage_write_sectors(sdev, lba, Mk32(count),
                                                  kres)
                   IN  IF r.ret = -EROFS
                       THEN StorageRsp(STORAGE_STATUS_WRITE_PROT, Mk32(0),
                                       r.io)
                       ELSE IF r.ret < 0
                       THEN StorageRsp(STORAGE_STATUS_SECTOR_NF, Mk32(0),
                                       r.io)
                       ELSE StorageRsp(STORAGE_STATUS_OK, Mk32(count), r.io)
              [] req.command = STORAGE_CMD_VERIFY ->
                   IF ~BeyondEnd(sdev, lba, req.count)
                   THEN StorageRsp(STORAGE_STATUS_OK, req.count, << >>)
                   ELSE StorageRsp(STORAGE_STATUS_SECTOR_NF, Mk32(0), << >>)
              [] req.command \in {STORAGE_CMD_RESET, STORAGE_CMD_RECAL} ->
                   StorageRsp(STORAGE_STATUS_OK, Mk32(0), << >>)
              [] req.command = STORAGE_CMD_GET_PARAMS ->
                   StorageRsp(STORAGE_STATUS_OK, Mk32(28), << >>)
              [] req.command = STORAGE_CMD_GET_TYPE ->
                   StorageRsp(STORAGE_STATUS_OK,
                              Mk32(IF req.drive >= 224 THEN 5
                                   ELSE IF req.drive >= 128 THEN 3 ELSE 4),
                              << >>)
              [] OTHER ->
                   StorageRsp(STORAGE_STATUS_BAD_CMD, Mk32(0), << >>)

(***************************************************************************)
(* storage.c: SCSI pass-through for the CD-ROM                             *)
(***************************************************************************)
SCSI_TEST_UNIT_READY == 0
SCSI_PREVENT_ALLOW_REMOVAL == 30
SCSI_READ_CAPACITY == 37
SCSI_GET_CONFIGURATION == 70
SCSI_STATUS_GOOD == 0
SCSI_STATUS_CHECK_CONDITION == 2
SCSI_SENSE_MAX_LEN == 18
SENSE_NOT_READY == 2
SENSE_ILLEGAL_REQUEST == 5
ASC_INVALID_COMMAND == 32
ASC_MEDIUM_NOT_PRESENT == 58
ENOMEDIUM == 123

\* sense[k] of the source is sense[k + 1] here
build_sense(sense_key, asc, ascq) ==
    [k \in 1..SCSI_SENSE_MAX_LEN |->
        CASE k = 1 -> 112
          [] k = 3 -> sense_key
          [] k = 8 -> 10
          [] k = 13 -> asc
          [] k = 14 -> ascq
          [] OTHER -> 0]

\* the response after memset(rsp, 0, sizeof(*rsp)), status GOOD
ScsiRsp0 ==
    [ret |-> 0, status |-> SCSI_STATUS_GOOD, sense_len |-> 0,
     sense |-> [k \in 1..SCSI_SENSE_MAX_LEN |-> 0],
     data_len |-> 0, data |-> << >>]

CheckCondition(sense_key, asc, ascq) ==
    [ScsiRsp0 EXCEPT !.status = SCSI_STATUS_CHECK_CONDITION,
                     !.sense = build_sense(sense_key, asc, ascq),
                     !.sense_len = SCSI_SENSE_MAX_LEN]

\* the last block and the block size, big-endian
scsi_read_capacity(sdev) ==
    IF ~sdev.mounted THEN [ret |-> -ENOMEDIUM, data |-> << >>]
    ELSE LET last_lba == IF sdev.total_sectors = U64Of(0) THEN Mk32(0)
                         ELSE Dec32(Lo32(sdev.total_sectors))
         IN  [ret |-> 0,
              data |-> <<last_lba.hi \div 256, last_lba.hi % 256,
                         last_lba.lo \div 256, last_lba.lo % 256,
                         0, 0, SECTOR_SIZE_CDROM \div 256,
                         SECTOR_SIZE_CDROM % 256>>]

\* faulty variant: an empty drive is reported ready
NoMedium_never(sdev) == FALSE

\* !sdev || !sdev->mounted
NoMedium(sdev) == ~sdev.mounted

\* the opcodes that transfer no sectors; the READ, READ TOC, MODE SENSE,
\* INQUIRY and REQUEST SENSE cases are not among the inputs
sunpci_storage_scsi_command(st, opcode) ==
    LET sdev == st["cdrom"]
    IN  CASE opcode = SCSI_TEST_UNIT_READY ->
               IF NoMedium(sdev)
               THEN CheckCondition(SENSE_NOT_READY, ASC_MEDIUM_NOT_PRESENT, 1)
               ELSE ScsiRsp0
          [] opcode = SCSI_READ_CAPACITY ->
               IF NoMedium(sdev)
               THEN CheckCondition(SENSE_NOT_READY, ASC_MEDIUM_NOT_PRESENT, 1)
               ELSE LET r == scsi_read_capacity(sdev)
                    IN  IF r.ret = -ENOMEDIUM
                        THEN CheckCondition(SENSE_NOT_READY,
                                            ASC_MEDIUM_NOT_PRESENT, 1)
                        ELSE [ScsiRsp0 EXCEPT !.data = r.data,
                                              !.data_len = Len(r.data)]
          [] opcode = SCSI_PREVENT_ALLOW_REMOVAL -> ScsiRsp0
          [] OTHER ->
               CheckCondition(SENSE_ILLEGAL_REQUEST, ASC_INVALID_COMMAND, 0)

(***************************************************************************)
(* storage.c entered from the control program's ioctls and from the       *)
(* worker.  One operation runs at a time; a mount that finds the session  *)
(* running goes on through the steps of sunpci_ipc_send_cmd.              *)
(***************************************************************************)
MaxStorageOps == 2

SUNPCI_DISK_READONLY == 1

DiskPaths == {"hd100", "mbr", "tiny", "huge", "missing"}
CdromPaths == {"iso", "badiso", "tiny", "missing"}
FloppyPaths == {"fd144", "fd720", "fd1m", "missing"}
\* slot and drive arguments: the two that exist and one that does not
SlotArgs == {0, 1, 2}
\* what can fail in the kernel under a mount: nothing, kzalloc, kernel_read
KernelFaults == {"none", "ENOMEM", "EIO"}

DiskSlot(slot) == IF slot = 0 THEN "disk0" ELSE "disk1"
FloppySlot(drive) == IF drive = 0 THEN "floppy0" ELSE "floppy1"

StorageIdle ==
    /\ hres.n < MaxStorageOps
    /\ \A t \in Threads : pc[t] = "idle"

\* if (dev->state == SUNPCI_STATE_RUNNING) sunpci_ipc_send_cmd(dev,
\*     SUNPCI_DISP_STORAGE, command, &msg, sizeof(msg), NULL)
Notify(t, sent, command, msg_len) ==
    IF sent /\ session.state = "RUNNING"
    THEN /\ loc' = [loc EXCEPT ![t] =
                       [Loc0 EXCEPT !.op = "send",
                                    !.dispatcher = SUNPCI_DISP_STORAGE,
                                    !.command = command,
                                    !.cmd_len = msg_len]]
         /\ pc' = [pc EXCEPT ![t] = "sc_seq"]
    ELSE UNCHANGED <<loc, pc>>

\* the body shared by the three mount functions: the image in the slot is
\* closed and freed, a new device is allocated and the image opened into it
MountImage(t, op, slot, path, readonly, sector_size, type, fault) ==
    LET res == IF fault = "ENOMEM" THEN [ret |-> -ENOMEM, sdev |-> NoDev]
               ELSE storage_open_image(path, readonly, sector_size, type,
                                       fault = "none")
    IN  /\ storage' = [storage EXCEPT ![slot] = res.sdev]
        /\ hres' = [op |-> op, n |-> hres.n + 1, slot |-> slot,
                    path |-> path, type |-> type, fault |-> fault,
                    ret |-> res.ret]
        /\ Notify(t, res.ret = 0, STORAGE_CMD_MOUNT, 8)

\* the slot or drive number is out of range: -EINVAL
BadSlot(op, path) ==
    /\ hres' = [op |-> op, n |-> hres.n + 1, slot |-> "none", path |-> path,
                type |-> "none", fault |-> "none", ret |-> -EINVAL]
    /\ UNCHANGED <<storage, loc, pc>>

Rest ==
    /\ disk_io' = << >>
    /\ UNCHANGED <<cmd_ring, rsp_ring, scratch, mmio_base, doorbell,
                   ipc_sequence, guest, calls, session, mutex, registry,
                   chres>>
    /\ UNCHANGED ringVars

sunpci_storage_mount_disk(t) ==
    /\ StorageIdle
    /\ \E slot \in SlotArgs, path \in DiskPaths,
          flags \in {0, SUNPCI_DISK_READONLY}, fault \in KernelFaults :
         IF slot > 1 THEN BadSlot("mount_disk", path)
         ELSE MountImage(t, "mount_disk", DiskSlot(slot), path,
                         flags % 2 = SUNPCI_DISK_READONLY, SECTOR_SIZE_HD,
                         "HDD", fault)
    /\ Rest

sunpci_storage_mount_cdrom(t) ==
    /\ StorageIdle
    /\ \E path \in CdromPaths, fault \in KernelFaults :
         MountImage(t, "mount_cdrom", "cdrom", path, TRUE, SECTOR_SIZE_CDROM,
                    "CDROM", fault)
    /\ Rest

sunpci_storage_mount_floppy(t) ==
    /\ StorageIdle
    /\ \E drive \in SlotArgs, path \in FloppyPaths, fault \in KernelFaults :
         IF drive > 1 THEN BadSlot("mount_floppy", path)
         ELSE MountImage(t, "mount_floppy", FloppySlot(drive), path, FALSE,
                         SECTOR_SIZE_FLOPPY, "FLOPPY", fault)
    /\ Rest

\* the body shared by unmount and eject: the image in the slot is closed
RemoveImage(t, op, slot, command) ==
    /\ storage' = [storage EXCEPT ![slot] = NoDev]
    /\ hres' = [op |-> op, n |-> hres.n + 1, slot |-> slot, path |-> "",
                type |-> "none", fault |-> "none", ret |-> 0]
    /\ Notify(t, TRUE, command, 4)

sunpci_storage_unmount_disk(t) ==
    /\ StorageIdle
    /\ \E slot \in SlotArgs :
         IF slot > 1 THEN BadSlot("unmount_disk", "")
         ELSE RemoveImage(t, "unmount_disk", DiskSlot(slot),
                          STORAGE_CMD_UNMOUNT)
    /\ Rest

sunpci_storage_eject_cdrom(t) ==
    /\ StorageIdle
    /\ RemoveImage(t, "eject_cdrom", "cdrom", STORAGE_CMD_EJECT)
    /\ Rest

sunpci_storage_eject_floppy(t) ==
    /\ StorageIdle
    /\ \E drive \in SlotArgs :
         IF drive > 1 THEN BadSlot("eject_floppy", "")
         ELSE RemoveImage(t, "eject_floppy", FloppySlot(drive),
                          STORAGE_CMD_EJECT)
    /\ Rest

\* the requests the guest sends
ReqDrives == {0, 2, 128, 224}
ReqCommands == {STORAGE_CMD_READ, STORAGE_CMD_WRITE, STORAGE_CMD_VERIFY,
                STORAGE_CMD_FORMAT}
\* lba_hi:lba_lo: zero (the CHS fields are used), 1, the last sector of
\* the 100 MB image, 2^64 - 1
ReqLbas == {<<Mk32(0), Mk32(0)>>, <<Mk32(0), Mk32(1)>>,
            <<Mk32(0), Mk32(204799)>>,
            <<W32(65535, 65535), W32(65535, 65535)>>}
ReqCounts == {Mk32(1), Mk32(2), Mk32(200)}
KernelIo == {"ok", "short"}

StorageReq(drive, command, lba, count) ==
    [drive |-> drive, command |-> command, cylinder |-> Mk32(0),
     head |-> Mk32(0), sector |-> Mk32(1), count |-> count,
     lba_lo |-> lba[2], lba_hi |-> lba[1]]

\* sunpci_storage_handle_request, called by the worker for a request frame
StorageRequest ==
    /\ StorageIdle
    /\ \E drive \in ReqDrives, command \in ReqCommands, lba \in ReqLbas,
          count \in ReqCounts, kres \in KernelIo :
         LET req == StorageReq(drive, command, lba, count)
             rsp == sunpci_storage_handle_request(storage, req, kres)
         IN  /\ hres' = [op |-> "request", n |-> hres.n + 1, req |-> req,
                         sdev |-> get_storage_dev(storage, drive),
                         status |-> rsp.status, count |-> rsp.count,
                         ret |-> rsp.ret]
             /\ disk_io' = rsp.io
    /\ UNCHANGED <<cmd_ring, rsp_ring, scratch, mmio_base, doorbell,
                   ipc_sequence, guest, calls, session, mutex, storage,
                   loc, pc, registry, chres>>
    /\ UNCHANGED ringVars

ScsiOpcodes == {SCSI_TEST_UNIT_READY, SCSI_READ_CAPACITY,
                SCSI_PREVENT_ALLOW_REMOVAL, SCSI_GET_CONFIGURATION}

\* sunpci_storage_scsi_command, called by the worker for a SCSI frame
ScsiCommand ==
    /\ StorageIdle
    /\ \E opcode \in ScsiOpcodes :
         hres' = [op |-> "scsi", n |-> hres.n + 1, opcode |-> opcode,
                  sdev |-> storage["cdrom"],
                  rsp |-> sunpci_storage_scsi_command(storage, opcode)]
    /\ disk_io' = << >>
    /\ UNCHANGED <<cmd_ring, rsp_ring, scratch, mmio_base, doorbell,
                   ipc_sequence, guest, calls, session, mutex, storage,
                   loc, pc, registry, chres>>
    /\ UNCHANGED ringVars

\* a session started with 16 MB and no disks named
RunningSession ==
    [Session0 EXCEPT !.state = "RUNNING",
                     !.config = [DefaultConfig EXCEPT !.memory_mb = 16],
                     !.start_time = 1, !.clock = 1]

\* the device after probe, the session stopped or started
StorageInit ==
    /\ RingAlone
    /\ DeviceInit
    /\ storage = [sl \in Slots |-> NoDev]
    /\ disk_io = << >>
    /\ hres = NoStorageOp
    /\ session \in {Session0, RunningSession}
    /\ mutex = "none"
    /\ registry = Registry0
    /\ chres = NoChannelOp

StorageSend(t) ==
    \/ SendSeq(t) \/ SendSpace(t) \/ SendHdr(t)
    \/ SendPayload(t) \/ SendSync(t) \/ SendBell(t)

StorageNext ==
    \/ StorageRequest
    \/ ScsiCommand
    \/ sunpci_storage_mount_disk("t1")
    \/ sunpci_storage_mount_cdrom("t1")
    \/ sunpci_storage_mount_floppy("t1")
    \/ sunpci_storage_unmount_disk("t1")
    \/ sunpci_storage_eject_cdrom("t1")
    \/ sunpci_storage_eject_floppy("t1")
    \/ StorageSend("t1")

SpecStorage == StorageInit /\ [][StorageNext]_vars

(***************************************************************************)
(* Properties of the storage operations                                    *)
(***************************************************************************)
\* a + b > c, the sum taken without wraparound
SumExceeds(a, b, c) ==
    LET s4 == a[4] + b[4]
        s3 == a[3] + b[3] + (s4 \div 65536)
        s2 == a[2] + b[2] + (s3 \div 65536)
        s1 == a[1] + b[1] + (s2 \div 65536)
    IN  s1 >= 65536 \/ Lt64(c, Add64(a, b))

\* the last operation was a sector read or write on a mounted device
SectorIo ==
    /\ hres.op = "request"
    /\ hres.req.command \in {STORAGE_CMD_READ, STORAGE_CMD_WRITE}
    /\ hres.sdev.mounted

\* C12: a sector read or write whose lba + count (the sum taken without
\* wraparound) exceeds the device's total_sectors is rejected and issues no
\* kernel_read or kernel_write, for every 64-bit lba and 32-bit count.
C12_Original ==
    (SectorIo /\ SumExceeds(RequestLba(hres.sdev, hres.req),
                            Widen(Mk32(ClampCount(hres.req.count))),
                            hres.sdev.total_sectors))
        => (hres.status # STORAGE_STATUS_OK /\ disk_io = << >>)

(***************************************************************************)
(* channel.c: the named-channel registry                                   *)
(***************************************************************************)
MaxChannelOps == 3

CHANNEL_FLAG_EXCLUSIVE == 1
CHANNEL_FLAG_PERSISTENT == 2
SUNPCI_CHANNEL_NAME_MAX == 64
SUNPCI_DISP_VIDEO == 2

\* names are sequences of character codes
CHANNEL_NAME_INT13 == <<78, 101, 119, 73, 110, 116, 49, 51, 68, 105, 115, 112, 97, 116, 99, 104, 101, 114>>
CHANNEL_NAME_VGA == <<86, 71, 65, 68, 105, 115, 112, 97, 116, 99, 104, 101, 114>>
CHANNEL_NAME_VIDEO == <<86, 105, 100, 101, 111, 68, 105, 115, 112, 97, 116, 99, 104, 101, 114>>
CHANNEL_NAME_NETWORK == <<78, 101, 116, 119, 111, 114, 107, 68, 105, 115, 112, 97, 116, 99, 104, 101, 114>>
CHANNEL_NAME_FSD == <<70, 83, 68, 68, 105, 115, 112, 97, 116, 99, 104, 101, 114>>
CHANNEL_NAME_CLIPBOARD == <<67, 108, 105, 112, 98, 111, 97, 114, 100, 68, 105, 115, 112, 97, 116, 99, 104, 101, 114>>

known_channels ==
    <<[name |-> CHANNEL_NAME_INT13, dispatcher |-> SUNPCI_DISP_STORAGE],
      [name |-> CHANNEL_NAME_VGA, dispatcher |-> SUNPCI_DISP_VGA],
      [name |-> CHANNEL_NAME_VIDEO, dispatcher |-> SUNPCI_DISP_VIDEO],
      [name |-> CHANNEL_NAME_NETWORK, dispatcher |-> SUNPCI_DISP_NETWORK],
      [name |-> CHANNEL_NAME_FSD, dispatcher |-> SUNPCI_DISP_FSD],
      [name |-> CHANNEL_NAME_CLIPBOARD, dispatcher |-> SUNPCI_DISP_CLIP]>>

\* the k-th code unit of the request's name[SUNPCI_CHANNEL_NAME_MAX]; the
\* units after those given are zero
NameUnit(name, k) == IF k <= Len(name) THEN name[k] ELSE 0

\* the characters copied: at most len_bytes / 2 and dst_size - 1 of them,
\* up to the first zero unit, units above 127 replaced by '?'
utf16le_to_ascii(src, len_bytes, dst_size) ==
    LET num_chars == Min(len_bytes \div 2, dst_size - 1)
        stop == {k \in 1..num_chars : NameUnit(src, k) = 0}
        n == IF stop = {} THEN num_chars
             ELSE (CHOOSE k \in stop : \A j \in stop : k <= j) - 1
    IN  [k \in 1..n |-> IF NameUnit(src, k) > 127 THEN 63
                        ELSE NameUnit(src, k)]

tolower(c) == IF c >= 65 /\ c <= 90 THEN c + 32 ELSE c

\* strcasecmp(a, b) == 0
SameNoCase(a, b) ==
    /\ Len(a) = Len(b)
    /\ \A k \in 1..Len(a) : tolower(a[k]) = tolower(b[k])

\* strcmp(a, b) == 0
SameName(a, b) == a = b

\* the dispatcher of the first table entry matching without regard to
\* case, or -1
channel_name_to_dispatcher(name) ==
    LET hits == {i \in 1..Len(known_channels) :
                    SameNoCase(name, known_channels[i].name)}
    IN  IF hits = {} THEN -1
        ELSE known_channels[CHOOSE i \in hits : \A j \in hits : i <= j]
                .dispatcher

\* faulty variant: no channel counts as exclusive
IsExclusive_never(ch) == FALSE

\* reg->channels[i].flags & CHANNEL_FLAG_EXCLUSIVE
IsExclusive(ch) == ch.flags % 2 = CHANNEL_FLAG_EXCLUSIVE

\* the first of the slots a loop over the registry stops at, or 0
FirstSlot(hits) ==
    IF hits = {} THEN 0 ELSE CHOOSE i \in hits : \A j \in hits : i <= j

ChannelRsp(reg, status, channel_id, ret) ==
    [reg |-> reg, status |-> status, channel_id |-> channel_id, ret |-> ret]

\* faulty variant: the id is taken from the counter before the search for
\* a free slot
sunpci_channel_create_early(reg, req) ==
    LET name == utf16le_to_ascii(req.name, req.name_len,
                                 SUNPCI_CHANNEL_NAME_MAX + 1)
        dispatcher == channel_name_to_dispatcher(name)
        found == FirstSlot({i \in 1..MAX_CHANNELS :
                               reg.channels[i].active
                               /\ SameName(reg.channels[i].name, name)})
        free == FirstSlot({i \in 1..MAX_CHANNELS : ~reg.channels[i].active})
        taken == [reg EXCEPT !.next_id = @ + 1]
    IN  IF dispatcher < 0 THEN ChannelRsp(reg, 2, 0, 0)
        ELSE IF found # 0
        THEN IF IsExclusive(reg.channels[found])
             THEN ChannelRsp(reg, 3, 0, 0)
             ELSE ChannelRsp(reg, 0, reg.channels[found].id, 0)
        ELSE IF free = 0 THEN ChannelRsp(taken, 4, 0, 0)
        ELSE ChannelRsp(
                 [taken EXCEPT !.channels[free] =
                                  [id |-> reg.next_id,
                                   dispatcher |-> dispatcher,
                                   flags |-> req.flags, active |-> TRUE,
                                   name |-> name]],
                 0, reg.next_id, 0)

\* the registry afterwards and the response
sunpci_channel_create(reg, req) ==
    LET name == utf16le_to_ascii(req.name, req.name_len,
                                 SUNPCI_CHANNEL_NAME_MAX + 1)
        dispatcher == channel_name_to_dispatcher(name)
        found == FirstSlot({i \in 1..MAX_CHANNELS :
                               reg.channels[i].active
                               /\ SameName(reg.channels[i].name, name)})
        free == FirstSlot({i \in 1..MAX_CHANNELS : ~reg.channels[i].active})
    IN  IF dispatcher < 0 THEN ChannelRsp(reg, 2, 0, 0)
        ELSE IF found # 0
        THEN IF IsExclusive(reg.channels[found])
             THEN ChannelRsp(reg, 3, 0, 0)
             ELSE ChannelRsp(reg, 0, reg.channels[found].id, 0)
        ELSE IF free = 0 THEN ChannelRsp(reg, 4, 0, 0)
        ELSE ChannelRsp(
                 [next_id |-> reg.next_id + 1,
                  channels |-> [reg.channels EXCEPT ![free] =
                                  [id |-> reg.next_id,
                                   dispatcher |-> dispatcher,
                                   flags |-> req.flags, active |-> TRUE,
                                   name |-> name]]],
                 0, reg.next_id, 0)

\* the registry afterwards and the result
sunpci_channel_delete(reg, channel_id) ==
    LET found == FirstSlot({i \in 1..MAX_CHANNELS :
                               reg.channels[i].active
                               /\ reg.channels[i].id = channel_id})
    IN  IF found = 0 THEN [reg |-> reg, ret |-> -ENOENT]
        ELSE [reg |-> [reg EXCEPT !.channels[found] = NoChannel],
              ret |-> 0]

\* the names the guest asks for: two well-known names, one of them also in
\* lower case, a name with a unit above 127, and an unknown name
ReqNames == {CHANNEL_NAME_VGA, <<118, 103, 97, 100, 105, 115, 112, 97, 116, 99, 104, 101, 114>>, CHANNEL_NAME_INT13,
             <<86, 71, 65, 200>>, <<88>>}
ReqFlags == {0, CHANNEL_FLAG_EXCLUSIVE, CHANNEL_FLAG_PERSISTENT}
ReqIds == {1, 2, 7}

ChannelRest ==
    /\ UNCHANGED <<cmd_ring, rsp_ring, scratch, mmio_base, doorbell,
                   ipc_sequence, pc, loc, guest, calls, storage, disk_io,
                   hres, session, mutex>>
    /\ UNCHANGED ringVars

\* CORE_CMD_CHANNEL_CREATE handled by the worker
ChannelCreate ==
    /\ chres.n < MaxChannelOps
    /\ \E name \in ReqNames, flags \in ReqFlags :
         LET req == [flags |-> flags, name_len |-> 2 * Len(name),
                     name |-> name]
             r == sunpci_channel_create(registry, req)
         IN  /\ registry' = r.reg
             /\ chres' = [op |-> "create", n |-> chres.n + 1, req |-> req,
                          before |-> registry, status |-> r.status,
                          channel_id |-> r.channel_id, ret |-> r.ret]
    /\ ChannelRest

\* CORE_CMD_CHANNEL_DELETE handled by the worker
ChannelDelete ==
    /\ chres.n < MaxChannelOps
    /\ \E id \in ReqIds :
         LET r == sunpci_channel_delete(registry, id)
         IN  /\ registry' = r.reg
             /\ chres' = [op |-> "delete", n |-> chres.n + 1, id |-> id,
                          before |-> registry, ret |-> r.ret]
    /\ ChannelRest

ChannelNext == ChannelCreate \/ ChannelDelete

SpecChannel == Init /\ [][ChannelNext]_vars

(***************************************************************************)
(* Properties of the channel registry                                      *)
(***************************************************************************)
\* the name a create request asks for, as the registry stores names
AskedName(req) ==
    utf16le_to_ascii(req.name, req.name_len, SUNPCI_CHANNEL_NAME_MAX + 1)

\* the slots that held an active channel of the asked name before the last
\* create
Duplicates ==
    {i \in 1..MAX_CHANNELS :
        /\ chres.before.channels[i].active
        /\ chres.before.channels[i].name = AskedName(chres.req)}

\* C13: a create whose name is that of an active channel is answered
\* "already exists" (status 3) with id 0 when that channel was created
\* exclusive, and with that channel's id and success when it was not; in
\* both cases no channel is created.
C13_Duplicate ==
    chres.op = "create" =>
        \A i \in Duplicates :
            LET ch == chres.before.channels[i]
            IN  /\ registry = chres.before
                /\ IF ch.flags % 2 = CHANNEL_FLAG_EXCLUSIVE
                   THEN chres.status = 3 /\ chres.channel_id = 0
                   ELSE chres.status = 0 /\ chres.channel_id = ch.id

\* an exclusive channel exists, and a create of the same name was refused
C13_Witness ==
    /\ chres.op = "create"
    /\ \E i \in Duplicates :
           chres.before.channels[i].flags % 2 = CHANNEL_FLAG_EXCLUSIVE
    /\ chres.status = 3

(***************************************************************************)
(* ioctl.c: start, stop and reset of the session, called from any number  *)
(* of processes; each takes dev->mutex around its check and its update    *)
(***************************************************************************)
EBUSY == 16
MaxMemoryMb == 256

\* the configurations callers pass: memory sizes at and around both ends of
\* the accepted range, with and without a primary disk
SessionCfgs ==
    {[DefaultConfig EXCEPT !.memory_mb = mb, !.flags = 0,
                           !.primary_disk = pd] :
        mb \in {0, 1, MaxMemoryMb, MaxMemoryMb + 1}, pd \in {"", "hd100"}}

\* cfg.memory_mb < 1 || cfg.memory_mb > 256
BadConfig(cfg) == cfg.memory_mb < 1 \/ cfg.memory_mb > MaxMemoryMb

SessionEnter(t, op, cfg) ==
    /\ pc[t] = "idle"
    /\ calls < MaxCalls
    /\ t = "t1" \/ calls > 0
    /\ calls' = calls + 1
    /\ LET l == [Loc0 EXCEPT !.op = op, !.cfg = cfg,
                              !.at_call = <<session.state>>]
       IN  IF op = "start" /\ BadConfig(cfg)
           THEN Finish(t, l, -EINVAL)
           ELSE /\ loc' = [loc EXCEPT ![t] = l]
                /\ pc' = [pc EXCEPT ![t] = "ss_lock"]
    /\ UNCHANGED <<cmd_ring, rsp_ring, scratch, mmio_base, doorbell,
                   ipc_sequence, guest>>
    /\ UNCHANGED <<ringVars, hostVars>>

\* copy_from_user, the check of memory_mb, then on to mutex_lock
ioctl_start_session(t) ==
    \E cfg \in SessionCfgs : SessionEnter(t, "start", cfg)

ioctl_stop_session(t) == SessionEnter(t, "stop", << >>)

ioctl_reset_session(t) == SessionEnter(t, "reset", << >>)

\* mutex_lock(&dev->mutex)
SessionLock(t) ==
    /\ pc[t] = "ss_lock"
    /\ mutex = "none"
    /\ mutex' = t
    /\ pc' = [pc EXCEPT ![t] = "ss_body"]
    /\ UNCHANGED <<cmd_ring, rsp_ring, scratch, mmio_base, doorbell,
                   ipc_sequence, loc, guest, calls>>
    /\ UNCHANGED <<storage, disk_io, hres, session, registry, chres>>
    /\ UNCHANGED ringVars

\* strscpy of a path that is not empty
CopyPath(old, new) == IF new # "" THEN new ELSE old

\* faulty variant: the configuration is stored before the state is looked at
StartSession_early(s, cfg) ==
    IF s.state # "STOPPED"
    THEN [session |-> [s EXCEPT !.config = cfg], ret |-> -EBUSY]
    ELSE [session |-> [s EXCEPT !.config = cfg, !.state = "RUNNING"],
          ret |-> 0]

\* the body of ioctl_start_session under the mutex
StartSession(s, cfg) ==
    IF s.state # "STOPPED" THEN [session |-> s, ret |-> -EBUSY]
    ELSE [session |->
             [s EXCEPT !.config = cfg,
                       !.disk_path = <<CopyPath(@[1], cfg.primary_disk),
                                       CopyPath(@[2], cfg.secondary_disk)>>,
                       !.state = "RUNNING",
                       !.start_time = s.clock + 1,
                       !.clock = s.clock + 1],
          ret |-> 0]

\* faulty variant: stop goes ahead in every state
StopRefused_never(s) == FALSE

\* dev->state == SUNPCI_STATE_STOPPED
StopRefused(s) == s.state = "STOPPED"

\* the body of ioctl_reset_session under the mutex
ResetSession(s) ==
    IF s.state # "RUNNING" THEN [session |-> s, ret |-> -EINVAL]
    ELSE [session |-> [s EXCEPT !.start_time = s.clock + 1,
                                !.clock = s.clock + 1],
          ret |-> 0]

\* the check and the update, with dev->mutex held.  Stopping closes every
\* image (sunpci_storage_cleanup); the network side is not modelled.
SessionBody(t) ==
    /\ pc[t] = "ss_body"
    /\ LET l == loc[t]
           r == CASE l.op = "start" -> StartSession(session, l.cfg)
                  [] l.op = "reset" -> ResetSession(session)
                  [] OTHER ->
                       IF StopRefused(session)
                       THEN [session |-> session, ret |-> -EINVAL]
                       ELSE [session |-> [session EXCEPT
                                             !.state = "STOPPED"],
                             ret |-> 0]
       IN  /\ session' = r.session
           /\ storage' = IF l.op = "stop" /\ r.ret = 0
                         THEN [sl \in Slots |-> NoDev] ELSE storage
           /\ loc' = [loc EXCEPT ![t] = [l EXCEPT !.ret = r.ret]]
    /\ pc' = [pc EXCEPT ![t] = "ss_unlock"]
    /\ UNCHANGED <<cmd_ring, rsp_ring, scratch, mmio_base, doorbell,
                   ipc_sequence, guest, calls>>
    /\ UNCHANGED <<disk_io, hres, mutex, registry, chres>>
    /\ UNCHANGED ringVars

\* mutex_unlock(&dev->mutex); return ret
SessionUnlock(t) ==
    /\ pc[t] = "ss_unlock"
    /\ mutex' = "none"
    /\ Finish(t, loc[t], loc[t].ret)
    /\ UNCHANGED <<cmd_ring, rsp_ring, scratch, mmio_base, doorbell,
                   ipc_sequence, guest, calls>>
    /\ UNCHANGED <<storage, disk_io, hres, session, registry, chres>>
    /\ UNCHANGED ringVars

\* the device after sunpci_create_device, with or without a disk image
\* mounted in slot 0
SessionInit ==
    /\ RingAlone
    /\ DeviceInit
    /\ storage \in
         {[sl \in Slots |-> NoDev],
          [sl \in Slots |->
             IF sl = "disk0"
             THEN storage_open_image("hd100", FALSE, SECTOR_SIZE_HD, "HDD",
                                     TRUE).sdev
             ELSE NoDev]}
    /\ disk_io = << >>
    /\ hres = NoStorageOp
    /\ session = Session0
    /\ mutex = "none"
    /\ registry = Registry0
    /\ chres = NoChannelOp

SessionNext ==
    \E t \in Threads :
        \/ ioctl_start_session(t) \/ ioctl_stop_session(t)
        \/ ioctl_reset_session(t)
        \/ SessionLock(t) \/ SessionBody(t) \/ SessionUnlock(t)

SpecSession == SessionInit /\ [][SessionNext]_vars

(***************************************************************************)
(* Properties of the session ioctls                                        *)
(***************************************************************************)
\* context t decides, under the mutex, whether its call goes ahead
Decides(t) == pc[t] = "ss_body" /\ pc'[t] = "ss_unlock"

\* C14: a start goes ahead only if the session is Stopped, a stop or a
\* reset only if it is Running (every other one is refused), and the
\* session is never in a third state; calls may be made concurrently.
C14_Guards ==
    [][/\ session.state \in {"STOPPED", "RUNNING"}
       /\ \A t \in Threads :
            (Decides(t) /\ loc'[t].ret = 0) =>
                IF loc[t].op = "start" THEN session.state = "STOPPED"
                ELSE session.state = "RUNNING"]_vars

\* two calls overlapped: a stop was issued while the session was Stopped,
\* a start went ahead before the stop took the mutex, and the stop, finding
\* the session Running, went ahead too; the other way round, a start issued
\* while the session was Stopped was refused
C14_Witness ==
    \E t, u \in Threads :
        /\ loc[t].op = "stop" /\ loc[t].fin /\ loc[t].ret = 0
        /\ loc[t].at_call = <<"STOPPED">>
        /\ loc[u].op = "start" /\ loc[u].fin /\ loc[u].ret = 0
        /\ session.state = "STOPPED"

\* C15: a start that is refused, for its memory size or because the
\* session is not Stopped, leaves dev->state, dev->config, the disk paths
\* and dev->start_time as they were: the only step of a start that changes
\* any of them is the one in which it goes ahead.
C15_RefusedStart ==
    [][\A t \in Threads :
          (pc'[t] # pc[t] /\ loc'[t].op = "start"
              /\ ~(Decides(t) /\ loc'[t].ret = 0))
             => session' = session]_vars

\* a start naming a disk and another memory size was refused while the
\* session was running
C15_Witness ==
    \E t \in Threads :
        /\ loc[t].op = "start" /\ loc[t].fin /\ loc[t].ret = -EBUSY
        /\ session.state = "RUNNING"
        /\ loc[t].cfg # session.config
        /\ loc[t].cfg.primary_disk # session.disk_path[1]

(***************************************************************************)
(* Properties of write protection, SCSI sense, validation and geometry    *)
(***************************************************************************)
\* C16: a write request to a mounted write-protected device (the CD-ROM
\* drive, whose image is always opened read-only, or a disk mounted with
\* SUNPCI_DISK_READONLY) is answered STORAGE_STATUS_WRITE_PROT with count 0,
\* and no kernel_write is issued on the backing file.
C16_WriteProtect ==
    /\ storage["cdrom"].mounted => storage["cdrom"].readonly
    /\ (/\ hres.op = "request"
        /\ hres.req.command = STORAGE_CMD_WRITE
        /\ hres.sdev.mounted
        /\ (hres.req.drive = 224 \/ hres.sdev.readonly))
       => /\ hres.status = STORAGE_STATUS_WRITE_PROT
          /\ hres.count = Mk32(0)
          /\ hres.ret = 0
          /\ disk_io = << >>

\* a write within the bounds of a disk image mounted read-only was refused
C16_Witness ==
    /\ hres.op = "request"
    /\ hres.req.command = STORAGE_CMD_WRITE
    /\ hres.req.drive = 128
    /\ hres.sdev.mounted /\ hres.sdev.readonly
    /\ hres.req.lba_lo = Mk32(1) /\ hres.req.lba_hi = Mk32(0)
    /\ hres.status = STORAGE_STATUS_WRITE_PROT

\* C17: TEST UNIT READY and READ CAPACITY with no image in the CD-ROM drive
\* are answered CHECK CONDITION with fixed-format sense data (0x70), sense
\* key 0x02 and additional sense code 0x3A, transfer no data, and the call
\* returns 0.
C17_NoMedium ==
    (/\ hres.op = "scsi"
     /\ hres.opcode \in {SCSI_TEST_UNIT_READY, SCSI_READ_CAPACITY}
     /\ ~hres.sdev.mounted)
    => /\ hres.rsp.ret = 0
       /\ hres.rsp.status = SCSI_STATUS_CHECK_CONDITION
       /\ hres.rsp.sense_len = SCSI_SENSE_MAX_LEN
       /\ hres.rsp.sense[1] = 112
       /\ hres.rsp.sense[3] = 2
       /\ hres.rsp.sense[13] = 58
       /\ hres.rsp.data_len = 0
       /\ hres.rsp.data = << >>

\* TEST UNIT READY was the second operation and found the drive empty
C17_Witness ==
    /\ hres.op = "scsi"
    /\ hres.opcode = SCSI_TEST_UNIT_READY
    /\ hres.n = 2
    /\ ~hres.sdev.mounted
    /\ hres.rsp.status = SCSI_STATUS_CHECK_CONDITION

\* the last operation mounted, or tried to mount, an image in a slot
MountTried ==
    /\ hres.op \in {"mount_disk", "mount_cdrom", "mount_floppy"}
    /\ hres.slot # "none"

\* what the validation for a device type asks of a file
PassesValidation(type, path) ==
    /\ path \in DOMAIN Images
    /\ CASE type = "CDROM" ->
              /\ ~Lt64(Images[path].size, U64Of(34816))
              /\ Images[path].sig = <<67, 68, 48, 48, 49>>
         [] type = "FLOPPY" ->
              Images[path].size \in
                  {U64Of(163840), U64Of(184320), U64Of(327680),
                   U64Of(368640), U64Of(737280), U64Of(1228800),
                   U64Of(1474560), U64Of(2949120)}
         [] OTHER -> ~Lt64(Images[path].size, U64Of(512))

\* C18: a mount succeeds only for an image that passes the validation for
\* its device type; an ISO without "CD001" at 16*2048+1 and a floppy image
\* whose size is not in the table are rejected, a disk image with 55 AA at
\* offset 510 is accepted without the SunPCi magic; after a rejected mount
\* the slot does not hold the rejected image (it holds none).
C18_Validation ==
    MountTried =>
        /\ hres.ret = 0 => PassesValidation(hres.type, hres.path)
        /\ hres.ret = 0 => /\ storage[hres.slot].mounted
                           /\ storage[hres.slot].file = hres.path
        /\ hres.ret < 0 => storage[hres.slot] = NoDev
        /\ (hres.fault = "none" /\ hres.type = "HDD"
               /\ hres.path \in DOMAIN Images
               /\ Images[hres.path].boot = <<85, 170>>
               /\ Images[hres.path].magic # SUNPCI_DISK_MAGIC)
           => hres.ret = 0

\* an ISO image without the "CD001" signature was rejected
C18_Witness ==
    /\ MountTried
    /\ hres.path = "badiso"
    /\ hres.fault = "none"
    /\ hres.ret = -EINVAL
    /\ storage["cdrom"] = NoDev

\* the heads for an image of size_mb megabytes
HeadsFor(size_mb) ==
    IF Le64(size_mb, U64Of(504)) THEN 16
    ELSE IF Le64(size_mb, U64Of(1008)) THEN 32
    ELSE IF Le64(size_mb, U64Of(2016)) THEN 64
    ELSE IF Le64(size_mb, U64Of(4032)) THEN 128
    ELSE 255

\* min(total_sectors / (heads * 63), 1024), in 64 bits
CylindersFor(total_sectors, heads) ==
    LET q == Div64(total_sectors, heads * 63)
    IN  IF Lt64(U64Of(1024), q) THEN U64Of(1024) ELSE q

\* C19: a 1,474,560-byte floppy image has geometry (80, 2, 18) and a
\* 737,280-byte one (80, 2, 9); every disk or optical image has 63 sectors
\* per track, 16/32/64/128/255 heads by its size in megabytes, and
\* min(total_sectors / (heads * 63), 1024) cylinders.
C19_Original ==
    \A sl \in Slots :
        LET d == storage[sl]
        IN  d.mounted =>
              IF sl \in {"floppy0", "floppy1"}
              THEN /\ d.size = U64Of(1474560) =>
                         <<d.cylinders, d.heads, d.sectors>>
                             = <<Mk32(80), 2, 18>>
                   /\ d.size = U64Of(737280) =>
                         <<d.cylinders, d.heads, d.sectors>>
                             = <<Mk32(80), 2, 9>>
              ELSE /\ d.sectors = 63
                   /\ d.heads = HeadsFor(Div64(Div64(d.size, 1024), 1024))
                   /\ Widen(d.cylinders)
                         = CylindersFor(d.total_sectors, d.heads)

(***************************************************************************)
(* The ring cursors when the guest stores a value of its own in the       *)
(* RSP_HEAD scratchpad register.  The register is 32 bits wide and        *)
(* writable by the guest; nothing on the host restricts what it holds.    *)
(***************************************************************************)
\* values stored: the last valid cursor, the ring size, and beyond
HeadValues == {RingSize - 1, RingSize, RingSize + 8}

GuestStoreHead ==
    /\ ~guest.done
    /\ Len(guest.frames) < MaxGuestWrites
    /\ \E v \in HeadValues :
         /\ scratch' = [scratch EXCEPT !["RSP_HEAD"] = v]
         /\ guest' = [guest EXCEPT !.frames = Append(@, <<"head", v>>)]
    /\ UNCHANGED <<cmd_ring, rsp_ring, mmio_base, doorbell, ipc_sequence,
                   pc, loc, calls>>
    /\ UNCHANGED <<ringVars, hostVars>>

CursorNext ==
    \/ GuestStoreHead \/ GuestGood \/ GuestStop
    \/ \E t \in {"t1"} :
         \/ RecvCall(t) \/ RecvSync(t) \/ RecvUsed(t) \/ RecvPeek(t)
         \/ RecvSkipByte(t) \/ RecvSkipMsg(t) \/ RecvFull(t)
         \/ RecvConsume(t) \/ RecvRead(t) \/ RecvSkipRest(t)
         \/ RecvReturn(t) \/ RecvExpire(t)

SpecCursor == Init /\ [][CursorNext]_vars

InRange(r) ==
    /\ 0 <= r.head /\ r.head < r.size
    /\ 0 <= r.tail /\ r.tail < r.size

\* C20: in every reachable state, also after sunpci_ring_sync_head has
\* copied the register into the local head, both cursors of the command
\* ring and of the response ring are at least 0 and below the ring's size.
C20_Original == InRange(cmd_ring) /\ InRange(rsp_ring)

(***************************************************************************)
(* Frames passed over by sunpci_ipc_recv_rsp                               *)
(***************************************************************************)
\* call u was handed the frame with header h
Delivered(u, h) ==
    /\ loc[u].op \in {"recv", "transact"}
    /\ loc[u].fin
    /\ GotResponse(loc[u])
    /\ loc[u].hdr = h

\* C21: a call with a nonzero expected sequence that finds a complete frame
\* with the magic and another sequence at the head of the ring consumes
\* exactly 16 + payload_len bytes, and that frame is handed to no call,
\* neither a later nor a concurrent one.
C21_Original ==
    \A t \in Threads : \A i \in DOMAIN loc[t].lost :
        LET f == loc[t].lost[i]
        IN  f.whole =>
              /\ f.consumed = SUNPCI_MSG_HDR_SIZE + ToInt(HdrPayloadLen(f.hdr))
              /\ \A u \in Threads : ~Delivered(u, f.hdr)

(***************************************************************************)
(* sunpci_ipc_recv_rsp with every kind of caller buffer: a buffer of some  *)
(* capacity, a capacity of zero, and no buffer (payload == NULL)           *)
(***************************************************************************)
BufCaps == {0, 2, 8}

RecvCallBuf(t) ==
    /\ pc[t] = "idle"
    /\ calls = 0
    /\ \E e \in ExpectedSeqs, cap \in BufCaps, b \in BOOLEAN, tmo \in Tmos :
         loc' = [loc EXCEPT ![t] =
                    [Loc0 EXCEPT !.op = "recv", !.expected = e, !.cap = cap,
                                 !.buf = b, !.tmo = tmo,
                                 !.at_call = GuestContent]]
    /\ pc' = [pc EXCEPT ![t] = "rr_sync"]
    /\ calls' = calls + 1
    /\ UNCHANGED <<cmd_ring, rsp_ring, scratch, mmio_base, doorbell,
                   ipc_sequence, guest>>
    /\ UNCHANGED <<ringVars, hostVars>>

CopyNext ==
    \/ GuestGood \/ GuestCorrupt \/ GuestTruncated \/ GuestStop
    \/ \E t \in {"t1"} :
         \/ RecvCallBuf(t) \/ RecvSync(t) \/ RecvUsed(t) \/ RecvPeek(t)
         \/ RecvSkipByte(t) \/ RecvSkipMsg(t) \/ RecvFull(t)
         \/ RecvConsume(t) \/ RecvRead(t) \/ RecvSkipRest(t)
         \/ RecvReturn(t) \/ RecvExpire(t)

SpecCopy == Init /\ [][CopyNext]_vars

\* the capacity of the caller's buffer; no buffer holds nothing
Capacity(l) == IF l.buf THEN l.cap ELSE 0

\* C22: when sunpci_ipc_recv_rsp returns 0, the consumer cursor has advanced
\* by 16 + payload_len of the frame returned, the first min(capacity,
\* payload_len) payload bytes are in the caller's buffer, and the status
\* and length reported are those of the frame's header, whatever the
\* capacity and also without a buffer.
C22_Original ==
    \A t \in Threads :
        LET l == loc[t]
            plen == Len(l.frame) - SUNPCI_MSG_HDR_SIZE
        IN  RecvDone(l) /\ l.ret = 0 =>
              /\ l.advance = SUNPCI_MSG_HDR_SIZE + plen
              /\ l.data = SubSeq(l.frame, SUNPCI_MSG_HDR_SIZE + 1,
                                 SUNPCI_MSG_HDR_SIZE
                                     + Min(Capacity(l), plen))
              /\ l.status = HdrStatus(l.frame)
              /\ l.actual_len = Mk32(plen)

(***************************************************************************)
(* A run of the request worker.  The work item is an ordinary kernel       *)
(* thread of execution: once started it is scheduled until it returns, and *)
(* nothing in its loop waits for another context.                          *)
(***************************************************************************)
WorkerStep(t) ==
    \/ WorkSync(t) \/ WorkUsed(t) \/ WorkPeek(t) \/ WorkSkipByte(t)
    \/ WorkFull(t) \/ WorkConsume(t) \/ WorkRead(t) \/ WorkDispatch(t)
    \/ RspSpace(t) \/ RspHdr(t) \/ RspPayload(t) \/ RspSync(t) \/ RspBell(t)

FairWorker == Init /\ [][WorkerNext]_vars /\ WF_vars(WorkerStep("t1"))

\* context t is inside sunpci_ipc_process_requests
Working(t) == loc[t].op = "worker" /\ pc[t] # "idle"

SUNPCI_DOORBELL_CMD_READY == 1
IRQ_NONE == 0
IRQ_HANDLED == 1

\* the guest has written frames and sets the bit that announces them
GuestBell ==
    /\ guest.rung < Len(guest.frames)
    /\ scratch' = [scratch EXCEPT !["SEC_DOORBELL"] =
                      @ + SUNPCI_DOORBELL_CMD_READY
                        - BitAnd(@, SUNPCI_DOORBELL_CMD_READY)]
    /\ guest' = [guest EXCEPT !.rung = Len(guest.frames)]
    /\ UNCHANGED <<cmd_ring, rsp_ring, mmio_base, doorbell, ipc_sequence,
                   pc, loc, calls>>
    /\ UNCHANGED <<ringVars, hostVars>>

\* if (!dev->mmio_base) return IRQ_NONE;
\* doorbell = sunpci_read32(dev, I21554_SEC_DOORBELL);
\* if (doorbell == 0) return IRQ_NONE
IrqRead(t) ==
    /\ pc[t] = "idle"
    /\ LET db == IF mmio_base THEN scratch["SEC_DOORBELL"] ELSE 0
           l == [Loc0 EXCEPT !.op = "irq", !.status = db]
       IN  IF db = 0
           THEN /\ loc' = [loc EXCEPT ![t] =
                              [l EXCEPT !.fin = TRUE, !.ret = IRQ_NONE]]
                /\ UNCHANGED pc
           ELSE /\ loc' = [loc EXCEPT ![t] = l]
                /\ pc' = [pc EXCEPT ![t] = "irq_clr"]
    /\ UNCHANGED <<cmd_ring, rsp_ring, scratch, mmio_base, doorbell,
                   ipc_sequence, guest, calls>>
    /\ UNCHANGED <<ringVars, hostVars>>

\* sunpci_write32(dev, I21554_SEC_DOORBELL_CLR, doorbell); the three bits
\* the handler knows (RSP_READY, VGA_UPDATE, RESET) are only logged;
\* return IRQ_HANDLED.  Nothing is queued or woken.
IrqClear(t) ==
    /\ pc[t] = "irq_clr"
    /\ scratch' = [scratch EXCEPT !["SEC_DOORBELL"] =
                      @ - BitAnd(@, loc[t].status)]
    /\ loc' = [loc EXCEPT ![t] = [@ EXCEPT !.fin = TRUE, !.ret = IRQ_HANDLED]]
    /\ pc' = [pc EXCEPT ![t] = "idle"]
    /\ UNCHANGED <<cmd_ring, rsp_ring, mmio_base, doorbell, ipc_sequence,
                   guest, calls>>
    /\ UNCHANGED <<ringVars, hostVars>>

sunpci_irq_handler(t) == IrqRead(t) \/ IrqClear(t)

\* the guest sending requests and ringing, the interrupt handler, and runs
\* of the request worker
IrqNext ==
    \/ GuestRequest \/ GuestTruncated \/ GuestCorrupt \/ GuestStop
    \/ GuestBell
    \/ sunpci_irq_handler("t2")
    \/ WorkerStart("t1") \/ WorkerStep("t1")

\* The interrupt is delivered and the handler runs to its end; a started
\* work item runs to its end.  No call in the sources queues the work item
\* (there is no INIT_WORK, schedule_work or queue_work), so nothing obliges
\* a run of the worker to start.
FairIrq ==
    /\ Init /\ [][IrqNext]_vars
    /\ WF_vars(sunpci_irq_handler("t2"))
    /\ WF_vars(WorkerStep("t1"))

\* the guest's i-th write is a request frame, so are all before it, and the
\* guest has rung the doorbell since
Announced(i) ==
    /\ i <= guest.rung
    /\ i <= Len(guest.frames)
    /\ \A j \in 1..i : guest.frames[j][1] = "request"

\* a response to the request with this sequence was written
Responded(sq) ==
    \E t \in Threads : \E j \in DOMAIN loc[t].log :
        /\ loc[t].op = "worker"
        /\ loc[t].log[j].sequence = sq
        /\ loc[t].log[j].ret = 0

\* C24: once the guest has put a well-formed request in the inbound ring
\* and rung the doorbell, the request is eventually dispatched and a
\* response to it written.
C24_Original ==
    \A i \in 1..MaxGuestWrites :
        Announced(i) ~> (/\ i <= Len(guest.frames)
                         /\ guest.frames[i][1] = "request"
                         /\ Responded(guest.frames[i][2]))

(***************************************************************************)
(* What the guest can see when the doorbell of sunpci_ipc_send_cmd rings   *)
(***************************************************************************)
\* the frame of the call of context t lies complete at the start of the
\* command ring
FrameWritten(t) ==
    LET l == loc[t]
    IN  memcpy_fromio(cmd_ring.buf, 0, total_len(l.cmd_len))
            = MsgHeaderBytes(l.dispatcher, l.command, l.seq, Mk32(l.cmd_len))
                  \o CmdPayload(l.seq, l.cmd_len)

\* C25: when the doorbell has been written by the first sunpci_ipc_send_cmd
\* on the hardware-managed command ring, the whole frame is in the ring, the
\* ring's producer cursor (head) has advanced by 16 + payload_len, and the
\* producer-cursor register holds that cursor.
C25_Original ==
    \A t \in Threads :
        /\ calls = 1
        /\ loc[t].op = "send"
        /\ "CMD_READY" \in doorbell
        => /\ FrameWritten(t)
           /\ cmd_ring.head = total_len(loc[t].cmd_len)
           /\ scratch[cmd_ring.head_reg] = cmd_ring.head


\* the response frames sunpci_ipc_send_response wrote for the request with
\* this sequence number
Responses(t, sequence) ==
    {j \in DOMAIN loc[t].log :
        loc[t].log[j].sequence = sequence /\ loc[t].log[j].ret = 0}

\* C26: for every complete well-formed request the worker has consumed and
\* dispatched, exactly one response frame with the request's sequence
\* number has been written.
C26_Original ==
    \A t \in Threads : \A i \in DOMAIN loc[t].log :
        (\E g \in DOMAIN guest.frames :
            /\ guest.frames[g][1] = "request"
            /\ guest.frames[g][2] = loc[t].log[i].sequence
            /\ guest.frames[g][3] = loc[t].log[i].dispatcher)
        => Cardinality(Responses(t, loc[t].log[i].sequence)) = 1

\* two names that denote the same entry of known_channels
SameChannelName(a, b) ==
    \E k \in 1..Len(known_channels) :
        /\ SameNoCase(a, known_channels[k].name)
        /\ SameNoCase(b, known_channels[k].name)

\* C27: a create asking for the well-known name, compared without regard
\* to letter case, of an active channel that was created with the exclusive
\* flag creates no channel: no second active channel maps to that name.
C27_Original ==
    chres.op = "create" =>
        \A i \in 1..MAX_CHANNELS :
            /\ chres.before.channels[i].active
            /\ IsExclusive(chres.before.channels[i])
            /\ SameChannelName(chres.before.channels[i].name,
                               AskedName(chres.req))
            => registry.channels = chres.before.channels

(***************************************************************************)
(* A guest that fills the registry: it names its channels by spellings of *)
(* "VGADispatcher" that differ in letter case, one spelling per id.       *)
(***************************************************************************)
MaxFillOps == 18

\* 'a' <-> 'A'
togglecase(c) ==
    IF c >= 65 /\ c <= 90 THEN c + 32
    ELSE IF c >= 97 /\ c <= 122 THEN c - 32 ELSE c

\* the k-th spelling: letter p has its case changed when bit p - 1 of
\* k - 1 is set
Spelling(k) ==
    [p \in 1..Len(CHANNEL_NAME_VGA) |->
        IF ((k - 1) \div Pow2(p - 1)) % 2 = 1
        THEN togglecase(CHANNEL_NAME_VGA[p]) ELSE CHANNEL_NAME_VGA[p]]

\* a spelling not used yet, the first spelling again with the exclusive
\* flag, or an unknown name
FillReqs ==
    {[name |-> Spelling(registry.next_id), flags |-> 0],
     [name |-> Spelling(1), flags |-> CHANNEL_FLAG_EXCLUSIVE],
     [name |-> <<88>>, flags |-> 0]}

FillCreate ==
    /\ chres.n < MaxFillOps
    /\ \E q \in FillReqs :
         LET req == [flags |-> q.flags, name_len |-> 2 * Len(q.name),
                     name |-> q.name]
             r == sunpci_channel_create(registry, req)
         IN  /\ registry' = r.reg
             /\ chres' = [op |-> "create", n |-> chres.n + 1, req |-> req,
                          before |-> registry, status |-> r.status,
                          channel_id |-> r.channel_id, ret |-> r.ret]
    /\ ChannelRest

FillDelete ==
    /\ chres.n < MaxFillOps
    /\ \E id \in {1, 16} :
         LET r == sunpci_channel_delete(registry, id)
         IN  /\ registry' = r.reg
             /\ chres' = [op |-> "delete", n |-> chres.n + 1, id |-> id,
                          before |-> registry, ret |-> r.ret]
    /\ ChannelRest

FillNext == FillCreate \/ FillDelete

SpecFill == Init /\ [][FillNext]_vars

\* C28: a create answered with a status other than success (unknown
\* channel 2, already exists 3, no free slots 4) returns channel id 0 and
\* leaves the registry, its channels and its id counter, as it was.
C28_FailedCreate ==
    (chres.op = "create" /\ chres.status # 0)
        => /\ chres.channel_id = 0
           /\ registry = chres.before

\* a known name not in the registry is refused when all slots are active
C28_Witness ==
    /\ chres.op = "create"
    /\ chres.status = 4
    /\ \A i \in 1..MAX_CHANNELS : chres.before.channels[i].active
    /\ channel_name_to_dispatcher(AskedName(chres.req)) >= 0

(***************************************************************************)
(* Sessions and channels: the guest, which runs while the session is      *)
(* Running, creates and deletes channels; the host starts, stops and      *)
(* resets the session.                                                     *)
(***************************************************************************)
MaxLifeOps == 2

LifeCreate ==
    /\ session.state = "RUNNING"
    /\ chres.n < MaxLifeOps
    /\ ChannelCreate

LifeDelete ==
    /\ session.state = "RUNNING"
    /\ chres.n < MaxLifeOps
    /\ ChannelDelete

LifeNext == SessionNext \/ LifeCreate \/ LifeDelete

SpecLife == SessionInit /\ [][LifeNext]_vars

\* C29: while the session is Stopped no channel is active: the channels
\* created while it was Running are gone once it has been stopped.
C29_Original ==
    session.state = "STOPPED" =>
        \A i \in 1..MAX_CHANNELS : ~registry.channels[i].active

(***************************************************************************)
(* channel.c: sunpci_channel_handle_nt_disk, the NT disk requests, which  *)
(* address sectors by LBA                                                  *)
(***************************************************************************)
NT_DISK_CMD_READ == 10
NT_DISK_CMD_WRITE == 11

\* switch (nt_req->drive_num): the BIOS drive number, or -1
NtDrive(drive_num) ==
    CASE drive_num = 0 -> 0
      [] drive_num = 1 -> 1
      [] drive_num = 2 -> 128
      [] drive_num = 3 -> 129
      [] drive_num = 4 -> 224
      [] OTHER -> -1

\* memset(&storage_req, 0, ...), then drive, command, lba_lo and count
NtStorageReq(drive, command, lba, count) ==
    [drive |-> drive,
     command |-> IF command = NT_DISK_CMD_READ THEN STORAGE_CMD_READ
                 ELSE STORAGE_CMD_WRITE,
     cylinder |-> Mk32(0), head |-> Mk32(0), sector |-> Mk32(0),
     count |-> count, lba_lo |-> lba, lba_hi |-> Mk32(0)]

NtDriveNums == {0, 2, 5}
NtCommands == {NT_DISK_CMD_READ, NT_DISK_CMD_WRITE}
\* the first sector, the second, and the last of the 100 MB image
NtLbas == {Mk32(0), Mk32(1), Mk32(204799)}
NtCounts == {Mk32(1), Mk32(2)}

\* a read or write of the NT disk driver, passed on to
\* sunpci_storage_handle_request
NtDiskRequest ==
    /\ StorageIdle
    /\ \E drive_num \in NtDriveNums, command \in NtCommands,
          lba \in NtLbas, count \in NtCounts, kres \in KernelIo :
         IF NtDrive(drive_num) < 0
         THEN /\ hres' = [op |-> "nt", n |-> hres.n + 1, ret |-> -EINVAL,
                          command |-> command, lba |-> lba, count |-> count,
                          kres |-> kres, sdev |-> NoDev, status |-> -1]
              /\ disk_io' = << >>
         ELSE LET req == NtStorageReq(NtDrive(drive_num), command, lba,
                                      count)
                  rsp == sunpci_storage_handle_request(storage, req, kres)
              IN  /\ hres' = [op |-> "nt", n |-> hres.n + 1, ret |-> rsp.ret,
                              command |-> command, lba |-> lba,
                              count |-> count, kres |-> kres,
                              sdev |-> get_storage_dev(storage,
                                                       NtDrive(drive_num)),
                              status |-> rsp.status]
                  /\ disk_io' = rsp.io
    /\ UNCHANGED <<cmd_ring, rsp_ring, scratch, mmio_base, doorbell,
                   ipc_sequence, guest, calls, session, mutex, storage,
                   loc, pc, registry, chres>>
    /\ UNCHANGED ringVars

NtNext ==
    \/ NtDiskRequest
    \/ sunpci_storage_mount_disk("t1")
    \/ sunpci_storage_mount_floppy("t1")
    \/ StorageSend("t1")

SpecNt == StorageInit /\ [][NtNext]_vars

\* the NT request asked for sectors that lie within a mounted image which
\* can be read or, for a write, written, and the kernel transfers them
NtInRange ==
    /\ hres.op = "nt"
    /\ hres.sdev.mounted
    /\ hres.sdev.file # "none"
    /\ hres.command = NT_DISK_CMD_WRITE => ~hres.sdev.readonly
    /\ hres.kres = "ok"
    /\ ~SumExceeds(Widen(hres.lba), Widen(hres.count),
                   hres.sdev.total_sectors)

\* C30: a read or write addressed by LBA within the image transfers
\* exactly the sectors lba .. lba + count - 1, for lba = 0 as for every
\* other lba.
C30_Original ==
    NtInRange =>
        /\ hres.status = STORAGE_STATUS_OK
        /\ disk_io = <<FileIo(IF hres.command = NT_DISK_CMD_READ
                              THEN "kernel_read" ELSE "kernel_write",
                              hres.sdev, Widen(hres.lba), hres.count)>>

(***************************************************************************)
(* storage.c: the READ(10) and READ(12) cases of                           *)
(* sunpci_storage_scsi_command                                             *)
(***************************************************************************)
SCSI_READ_10 == 40
SCSI_READ_12 == 168
SENSE_MEDIUM_ERROR == 3
ASC_LBA_OUT_OF_RANGE == 33

\* a + b modulo 2^32
Sum32(a, b) ==
    LET s == a.lo + b.lo
    IN  W32((a.hi + b.hi + (s \div 65536)) % 65536, s % 65536)

\* w * 2048 modulo 2^32
Times2048(w) ==
    LET p == w.lo * SECTOR_SIZE_CDROM
    IN  W32((w.hi * SECTOR_SIZE_CDROM + (p \div 65536)) % 65536, p % 65536)

\* the big-endian u32 at cdb[k .. k + 3] of the source (bytes k + 1 .. here)
CdbWord(cdb, k) ==
    W32(cdb[k + 1] * 256 + cdb[k + 2], cdb[k + 3] * 256 + cdb[k + 4])

\* the CDB of a READ(10) or READ(12) for lba and count; READ(10) has two
\* bytes for the count
ReadCdb(opcode, lba, count) ==
    IF opcode = SCSI_READ_10
    THEN <<opcode, 0, lba.hi \div 256, lba.hi % 256, lba.lo \div 256,
           lba.lo % 256, 0, count.lo \div 256, count.lo % 256, 0, 0, 0>>
    ELSE <<opcode, 0, lba.hi \div 256, lba.hi % 256, lba.lo \div 256,
           lba.lo % 256, count.hi \div 256, count.hi % 256,
           count.lo \div 256, count.lo % 256, 0, 0>>

\* lba + count > sdev->total_sectors, lba and count being u32: the sum is
\* taken in 32 bits and then compared in 64
ReadBeyond(sdev, lba, count) ==
    Lt64(sdev.total_sectors, Widen(Sum32(lba, count)))

\* case SCSI_READ_10 and case SCSI_READ_12: the response and the kernel_read
\* calls made
scsi_read(st, cdb, kres) ==
    LET sdev == st["cdrom"]
        lba == CdbWord(cdb, 2)
        count == IF cdb[1] = SCSI_READ_10
                 THEN W32(0, cdb[8] * 256 + cdb[9])
                 ELSE CdbWord(cdb, 6)
        asked == Times2048(count)
        clamp == asked.hi > 1 \/ (asked.hi = 1 /\ asked.lo > 0)
        transfer_len == IF clamp THEN Mk32(SCSI_DATA_MAX_LEN) ELSE asked
        sectors == IF clamp THEN Mk32(SCSI_DATA_MAX_LEN \div SECTOR_SIZE_CDROM)
                   ELSE count
    IN  IF NoMedium(sdev)
        THEN [rsp |-> CheckCondition(SENSE_NOT_READY,
                                     ASC_MEDIUM_NOT_PRESENT, 1),
              data_len |-> Mk32(0), io |-> << >>]
        ELSE IF ReadBeyond(sdev, lba, count)
        THEN [rsp |-> CheckCondition(SENSE_ILLEGAL_REQUEST,
                                     ASC_LBA_OUT_OF_RANGE, 0),
              data_len |-> Mk32(0), io |-> << >>]
        ELSE LET r == storage_read_sectors(sdev, Widen(lba), sectors, kres)
             IN  IF r.ret < 0
                 THEN [rsp |-> CheckCondition(SENSE_MEDIUM_ERROR, 17, 0),
                       data_len |-> Mk32(0), io |-> r.io]
                 ELSE [rsp |-> ScsiRsp0, data_len |-> transfer_len,
                       io |-> r.io]

ReadOpcodes == {SCSI_READ_10, SCSI_READ_12}
\* the first sector of the 20-sector image, its last, the one after it, and
\* the largest lba
ReadLbas == {Mk32(0), Mk32(19), Mk32(20), W32(65535, 65535)}
\* of which READ(10) can carry the low 16 bits
ReadCounts == {Mk32(0), Mk32(1), Mk32(2), Mk32(65535), W32(65535, 65535)}

\* a READ(10) or READ(12) frame handled by the worker
ScsiRead ==
    /\ StorageIdle
    /\ \E opcode \in ReadOpcodes, lba \in ReadLbas, count \in ReadCounts,
          kres \in KernelIo :
         LET r == scsi_read(storage, ReadCdb(opcode, lba, count), kres)
         IN  /\ hres' = [op |-> "read", n |-> hres.n + 1, opcode |-> opcode,
                         lba |-> lba,
                         count |-> IF opcode = SCSI_READ_10
                                   THEN W32(0, count.lo) ELSE count,
                         sdev |-> storage["cdrom"], rsp |-> r.rsp,
                         data_len |-> r.data_len]
             /\ disk_io' = r.io
    /\ UNCHANGED <<cmd_ring, rsp_ring, scratch, mmio_base, doorbell,
                   ipc_sequence, guest, calls, session, mutex, storage,
                   loc, pc, registry, chres>>
    /\ UNCHANGED ringVars

ScsiReadNext ==
    \/ ScsiRead
    \/ sunpci_storage_mount_cdrom("t1")
    \/ StorageSend("t1")

SpecScsiRead == StorageInit /\ [][ScsiReadNext]_vars

\* the last operation was a READ on a mounted disc of sectors that are not
\* all on it
ReadPastEnd ==
    /\ hres.op = "read"
    /\ hres.sdev.mounted
    /\ SumExceeds(Widen(hres.lba), Widen(hres.count),
                  hres.sdev.total_sectors)

\* C31: a READ(10) or READ(12) on a mounted disc whose lba + count, the sum
\* taken without wraparound, exceeds total_sectors is answered CHECK
\* CONDITION with sense key ILLEGAL REQUEST and ASC LBA OUT OF RANGE,
\* transfers no data and issues no kernel_read.
C31_Original ==
    ReadPastEnd =>
        /\ hres.rsp.status = SCSI_STATUS_CHECK_CONDITION
        /\ hres.rsp.sense[3] = SENSE_ILLEGAL_REQUEST
        /\ hres.rsp.sense[13] = ASC_LBA_OUT_OF_RANGE
        /\ hres.data_len = Mk32(0)
        /\ disk_io = << >>

(***************************************************************************)
(* ioctl.c: ioctl_mount_disk, one step per access to shared state, run    *)
(* by two contexts together with the session ioctls                        *)
(***************************************************************************)
MountArgs ==
    {[slot |-> 0, path |-> "hd100", flags |-> 0],
     [slot |-> 0, path |-> "missing", flags |-> SUNPCI_DISK_READONLY],
     [slot |-> 2, path |-> "hd100", flags |-> 0]}

\* copy_from_user; if (mount.slot > 1) return -EINVAL
ioctl_mount_disk(t) ==
    /\ pc[t] = "idle"
    /\ calls < MaxCalls
    /\ calls' = calls + 1
    /\ \E a \in MountArgs :
         LET l == [Loc0 EXCEPT !.op = "mount", !.cfg = a,
                               !.at_call = <<session.state>>]
         IN  IF a.slot > 1 THEN Finish(t, l, -EINVAL)
             ELSE /\ loc' = [loc EXCEPT ![t] = l]
                  /\ pc' = [pc EXCEPT ![t] = "im_lock"]
    /\ UNCHANGED <<cmd_ring, rsp_ring, scratch, mmio_base, doorbell,
                   ipc_sequence, guest>>
    /\ UNCHANGED <<ringVars, hostVars>>

\* mutex_lock(&dev->mutex)
IoctlMountLock(t) ==
    /\ pc[t] = "im_lock"
    /\ mutex = "none"
    /\ mutex' = t
    /\ pc' = [pc EXCEPT ![t] = "im_path"]
    /\ UNCHANGED <<cmd_ring, rsp_ring, scratch, mmio_base, doorbell,
                   ipc_sequence, loc, guest, calls>>
    /\ UNCHANGED <<storage, disk_io, hres, session, registry, chres>>
    /\ UNCHANGED ringVars

\* strscpy(dev->storage.disk_path[mount.slot], ...); the flags;
\* mutex_unlock(&dev->mutex)
IoctlMountPath(t) ==
    /\ pc[t] = "im_path"
    /\ session' = [session EXCEPT !.disk_path[loc[t].cfg.slot + 1] =
                                      loc[t].cfg.path]
    /\ mutex' = "none"
    /\ pc' = [pc EXCEPT ![t] = "im_close"]
    /\ UNCHANGED <<cmd_ring, rsp_ring, scratch, mmio_base, doorbell,
                   ipc_sequence, loc, guest, calls>>
    /\ UNCHANGED <<storage, disk_io, hres, registry, chres>>
    /\ UNCHANGED ringVars

\* sunpci_storage_mount_disk: the image in the slot is closed and freed
MountClose(t) ==
    /\ pc[t] = "im_close"
    /\ storage' = [storage EXCEPT ![DiskSlot(loc[t].cfg.slot)] = NoDev]
    /\ pc' = [pc EXCEPT ![t] = "im_open"]
    /\ UNCHANGED <<cmd_ring, rsp_ring, scratch, mmio_base, doorbell,
                   ipc_sequence, loc, guest, calls>>
    /\ UNCHANGED <<disk_io, hres, session, mutex, registry, chres>>
    /\ UNCHANGED ringVars

\* sunpci_storage_mount_disk: the new image is opened and put in the slot,
\* and the guest is told if the session is running
MountOpen(t) ==
    /\ pc[t] = "im_open"
    /\ LET a == loc[t].cfg
           res == storage_open_image(a.path,
                                     a.flags % 2 = SUNPCI_DISK_READONLY,
                                     SECTOR_SIZE_HD, "HDD", TRUE)
       IN  IF res.ret < 0
           THEN /\ Finish(t, loc[t], res.ret)
                /\ UNCHANGED storage
           ELSE /\ storage' = [storage EXCEPT ![DiskSlot(a.slot)] = res.sdev]
                /\ IF session.state = "RUNNING"
                   THEN /\ loc' = [loc EXCEPT ![t] =
                                     [Loc0 EXCEPT !.op = "send",
                                          !.dispatcher = SUNPCI_DISP_STORAGE,
                                          !.command = STORAGE_CMD_MOUNT,
                                          !.cmd_len = 8]]
                        /\ pc' = [pc EXCEPT ![t] = "sc_seq"]
                   ELSE Finish(t, loc[t], 0)
    /\ UNCHANGED <<cmd_ring, rsp_ring, scratch, mmio_base, doorbell,
                   ipc_sequence, guest, calls>>
    /\ UNCHANGED <<disk_io, hres, session, mutex, registry, chres>>
    /\ UNCHANGED ringVars

MountNext ==
    \/ SessionNext
    \/ \E t \in Threads :
         \/ ioctl_mount_disk(t) \/ IoctlMountLock(t) \/ IoctlMountPath(t)
         \/ MountClose(t) \/ MountOpen(t) \/ StorageSend(t)

SpecMount == SessionInit /\ [][MountNext]_vars

\* C32: every step that changes the drive-slot table is taken with
\* dev->mutex held.
C32_Original == [][storage' # storage => mutex # "none"]_vars

(***************************************************************************)
(* The session ioctls and mounts on a device whose session may be         *)
(* running: a mount then sends a notification through the command ring.   *)
(***************************************************************************)
SpecReset == StorageInit /\ [][MountNext]_vars

\* C33: the step in which a reset goes ahead leaves the producer and
\* consumer cursors of both rings at zero, so both rings are empty.
C33_Original ==
    [][\A t \in Threads :
          (Decides(t) /\ loc[t].op = "reset" /\ loc'[t].ret = 0)
             => /\ cmd_ring'.head = 0 /\ cmd_ring'.tail = 0
                /\ rsp_ring'.head = 0 /\ rsp_ring'.tail = 0
                /\ sunpci_ring_used(cmd_ring') = 0
                /\ sunpci_ring_used(rsp_ring') = 0]_vars

\* the edges of the session life cycle
StateEdges ==
    {<<"STOPPED", "STARTING">>, <<"STARTING", "RUNNING">>,
     <<"RUNNING", "STOPPING">>, <<"STOPPING", "STOPPED">>}

\* C34: dev->state changes only along Stopped -> Starting -> Running ->
\* Stopping -> Stopped, or into Error.
C34_Original ==
    [][session'.state # session.state =>
          \/ <<session.state, session'.state>> \in StateEdges
          \/ session'.state = "ERROR"]_vars

\* the n bytes of the ring that end at its write cursor
BytesBeforeHead(r, n) ==
    [k \in 1..n |-> r.buf[(r.head + r.size - n + k - 1) % r.size]]

\* context t is about to write its payload
WritesPayload(t) == pc[t] = "sc_payload" /\ pc'[t] # "sc_payload"

\* C35: with two contexts in sunpci_ipc_send_cmd on the same ring, the
\* payload of a frame is written immediately after that frame's own 16-byte
\* header, and every header written is followed by its payload.
C35_Original ==
    [][\A t \in Threads :
          WritesPayload(t) =>
             /\ BytesBeforeHead(cmd_ring, SUNPCI_MSG_HDR_SIZE)
                   = MsgHeaderBytes(loc[t].dispatcher, loc[t].command,
                                    loc[t].seq, Mk32(loc[t].cmd_len))
             /\ loc'[t].wrote = SUNPCI_MSG_HDR_SIZE + loc[t].cmd_len]_vars

(***************************************************************************)
(* ipc.c: sunpci_dispatch_storage with the sector data of INT 13h reads   *)
(* and writes.  A sector's content is one value; 0 is the content of the  *)
(* image before any write.                                                 *)
(***************************************************************************)
MaxDataOps == 3

SectorVals == {0, 7, 9}
DataLbas == {<<Mk32(0), Mk32(1)>>, <<Mk32(0), Mk32(2)>>,
             <<Mk32(0), Mk32(204799)>>}
DataCounts == {1, 2}

\* the kernel_write calls in log that cover the sector
WritesOf(log, file, sector) ==
    {i \in 1..Len(log) :
        /\ log[i].op = "kernel_write"
        /\ log[i].file = file
        /\ \E k \in 0..(ToInt(log[i].count) - 1) :
              Add64(log[i].lba, Widen(Mk32(k))) = sector}

\* the content of a sector of the backing file after the writes in log
FileSector(log, file, sector) ==
    LET ws == WritesOf(log, file, sector)
    IN  IF ws = {} THEN 0
        ELSE LET i == CHOOSE j \in ws : \A k \in ws : k <= j
                 k == CHOOSE k \in 0..(ToInt(log[i].count) - 1) :
                         Add64(log[i].lba, Widen(Mk32(k))) = sector
             IN  log[i].data[k + 1]

\* kernel_read into data_buf: count sectors from lba
ReadData(log, io) ==
    [k \in 1..ToInt(io.count) |->
        FileSector(log, io.file, Add64(io.lba, Widen(Mk32(k - 1))))]

\* variant: the sectors that follow the request in the frame are copied
\* into data_buf before the write
WriteBuffer_payload(payload, heap) == payload

\* data_buf = kmalloc(SCSI_DATA_MAX_LEN, GFP_KERNEL), handed to
\* sunpci_storage_handle_request as it is: what kernel_write writes is what
\* the allocation held
WriteBuffer(payload, heap) == heap

\* a write request frame: the request followed by count sectors of data
DispatchWrite ==
    /\ hres.n < MaxDataOps
    /\ \E lba \in DataLbas, count \in DataCounts :
       \E payload \in [1..count -> SectorVals \ {0}],
          heap \in [1..count -> SectorVals] :
         LET req == StorageReq(128, STORAGE_CMD_WRITE, lba, Mk32(count))
             rsp == sunpci_storage_handle_request(storage, req, "ok")
             buf == WriteBuffer(payload, heap)
         IN  /\ disk_io' = disk_io \o
                   [i \in 1..Len(rsp.io) |->
                       [op |-> rsp.io[i].op, file |-> rsp.io[i].file,
                        lba |-> rsp.io[i].lba, count |-> rsp.io[i].count,
                        data |-> buf]]
             /\ hres' = [op |-> "dwrite", n |-> hres.n + 1, req |-> req,
                         payload |-> payload, status |-> rsp.status,
                         count |-> rsp.count, data |-> << >>]
    /\ UNCHANGED <<cmd_ring, rsp_ring, scratch, mmio_base, doorbell,
                   ipc_sequence, guest, calls, session, mutex, storage,
                   loc, pc, registry, chres>>
    /\ UNCHANGED ringVars

\* a read request frame; the response carries rsp.count sectors of data_buf
DispatchRead ==
    /\ hres.n < MaxDataOps
    /\ \E lba \in DataLbas, count \in DataCounts :
         LET req == StorageReq(128, STORAGE_CMD_READ, lba, Mk32(count))
             rsp == sunpci_storage_handle_request(storage, req, "ok")
         IN  hres' = [op |-> "dread", n |-> hres.n + 1, req |-> req,
                      payload |-> << >>, status |-> rsp.status,
                      count |-> rsp.count,
                      data |-> IF Len(rsp.io) = 0 THEN << >>
                               ELSE ReadData(disk_io, rsp.io[1]),
                      prev |-> IF hres.op = "dwrite"
                               THEN hres ELSE NoStorageOp]
    /\ UNCHANGED <<cmd_ring, rsp_ring, scratch, mmio_base, doorbell,
                   ipc_sequence, guest, calls, session, mutex, storage,
                   loc, pc, registry, chres, disk_io>>
    /\ UNCHANGED ringVars

\* the 100 MB image mounted in disk 0, writable or read-only
DataInit ==
    /\ RingAlone
    /\ DeviceInit
    /\ \E ro \in BOOLEAN :
         storage = [sl \in Slots |->
                      IF sl = "disk0"
                      THEN storage_open_image("hd100", ro, SECTOR_SIZE_HD,
                                              "HDD", TRUE).sdev
                      ELSE NoDev]
    /\ disk_io = << >>
    /\ hres = NoStorageOp
    /\ session = RunningSession
    /\ mutex = "none"
    /\ registry = Registry0
    /\ chres = NoChannelOp

DataNext == DispatchWrite \/ DispatchRead

SpecData == DataInit /\ [][DataNext]_vars

\* a read of the range that the request before it wrote, both answered ok
ReadsBack ==
    /\ hres.op = "dread"
    /\ hres.status = STORAGE_STATUS_OK
    /\ hres.prev.op = "dwrite"
    /\ hres.prev.status = STORAGE_STATUS_OK
    /\ hres.prev.req.lba_lo = hres.req.lba_lo
    /\ hres.prev.req.lba_hi = hres.req.lba_hi
    /\ hres.prev.req.count = hres.req.count
    /\ ~storage["disk0"].readonly

\* C36: a read of the sectors that a write request answered ok has just
\* written returns the data carried in that write request's payload.
C36_Original == ReadsBack => hres.data = hres.prev.payload

\* a mount function has just returned an error
MountFailed ==
    /\ hres'.n = hres.n + 1
    /\ hres'.op \in {"mount_disk", "mount_cdrom", "mount_floppy"}
    /\ hres'.ret < 0

\* C37: a mount that fails leaves the drive-slot table as it was: the image
\* that was mounted in the slot stays mounted.
C37_Original == [][MountFailed => storage' = storage]_vars

(***************************************************************************)
(* Floppy images of every size in valid_floppy_sizes                       *)
(***************************************************************************)
SizedFloppyPaths ==
    {"fd160", "fd180", "fd320", "fd360", "fd720", "fd12", "fd144", "fd288",
     "fd1m"}

\* sunpci_storage_mount_floppy with an image of any of these sizes
MountSizedFloppy(t) ==
    /\ StorageIdle
    /\ \E drive \in {0, 1}, path \in SizedFloppyPaths :
         MountImage(t, "mount_floppy", FloppySlot(drive), path, FALSE,
                    SECTOR_SIZE_FLOPPY, "FLOPPY", "none")
    /\ Rest

FloppyNext ==
    \/ MountSizedFloppy("t1")
    \/ sunpci_storage_eject_floppy("t1")
    \/ StorageSend("t1")

SpecFloppy == StorageInit /\ [][FloppyNext]_vars

\* cylinders * heads * sectors per track, in 64 bits
ChsSectors(sdev) ==
    Mul64(Mul64(Widen(sdev.cylinders), sdev.heads), sdev.sectors)

\* C38: a floppy image accepted by the mount has a geometry whose
\* cylinders * heads * sectors per track is its number of sectors, size / 512.
C38_Original ==
    \A sl \in {"floppy0", "floppy1"} :
        storage[sl].mounted =>
            /\ storage[sl].total_sectors
                  = Div64(storage[sl].size, SECTOR_SIZE_FLOPPY)
            /\ ChsSectors(storage[sl]) = storage[sl].total_sectors

\* a sender has written bytes of a command frame
CmdRingWritten == cmd_ring'.head # cmd_ring.head \/ cmd_ring'.buf # cmd_ring.buf

\* C39: bytes of a host-initiated command frame are written to the command
\* ring only while the session is Running, also when a stop runs beside the
\* sender.
C39_Original == [][CmdRingWritten => session.state = "RUNNING"]_vars

\* C40: sunpci_ipc_send_cmd never gives a request the sequence number 0,
\* which sunpci_ipc_recv_rsp takes as "any sequence", also after the 32-bit
\* counter has wrapped.
C40_Original == \A t \in Threads : Allocated(t) => loc[t].seq # Mk32(0)

=============================================================================
